---- MODULE Spec2Model ----
(***************************************************************************)
(* TravelTracker: the data model (models.py), the validation helpers       *)
(* (utils.py), the SQLite storage layer (storage.py), the analyzer         *)
(* (analysis.py), the client of the external services (api_client.py) and  *)
(* the window of the application (gui.py).                                 *)
(*                                                                         *)
(* Conventions.  Optional[x] is a sequence of length <= 1 (None is <<>>).  *)
(* A calendar date is a record [year, month, day]; its ISO-8601 text is    *)
(* the sequence <<year, month, day>> of the three numbers the text holds.  *)
(* A SQL NULL is <<>>.  Monetary amounts are integers; a Python dict is a   *)
(* function on its keys ({} has the empty domain).                         *)
(***************************************************************************)
EXTENDS Integers, Sequences, FiniteSets, TLC

VARIABLES db, pre, call, ret, raised, ncalls, issued, fn, args, out,
          client, sync, sessions, scopes,
          current_trips, current_trip, current_trip_at, trips_tree,
          current_expenses, trip_combobox, analytics_trip_combobox,
          export_trip_combobox, figures, handler, started, nops

vars == <<db, pre, call, ret, raised, ncalls, issued, fn, args, out,
          client, sync, sessions, scopes,
          current_trips, current_trip, current_trip_at, trips_tree,
          current_expenses, trip_combobox, analytics_trip_combobox,
          export_trip_combobox, figures, handler, started, nops>>

storageVars == <<db, pre, call, ret, raised, ncalls, issued>>

pureVars == <<fn, args, out>>

apiVars == <<client, sync, sessions, scopes>>

\* the window: its widgets and fields (uiState), and the record of the
\* last handler run with the state it started from
uiState == <<current_trips, current_trip, current_trip_at, trips_tree,
             current_expenses, trip_combobox, analytics_trip_combobox,
             export_trip_combobox, figures>>

uiVars == <<uiState, handler, started, nops>>

(***************************************************************************)
(* Bounds of the model.                                                    *)
(***************************************************************************)
\* longest sequence of storage calls explored
MaxCalls == 5

\* longest sequence of handlers of the window explored
MaxUiOps == 5

\* largest trip id handed out or named by a call
MaxTrips == 2

\* largest expense id handed out or named by a call
MaxExpenses == 2

\* longest amount text typed
MaxAmountLen == 5

\* longest expense list an analyzer is built from
MaxEngineExpenses == 3

\* most aiohttp sessions one client creates
MaxSessions == 2

\* most `async with` blocks on the client active at once
MaxScopes == 2

(***************************************************************************)
(* models.py                                                               *)
(***************************************************************************)
None == <<>>

Some(x) == <<x>>

NULL == <<>>

ExpenseCategory ==
    {"TRANSPORT", "ACCOMMODATION", "FOOD", "ENTERTAINMENT", "SHOPPING",
     "SIGHTSEEING", "OTHER"}

\* ExpenseCategory.X.value (the display text, transliterated)
ExpenseCategoryValue ==
    [c \in ExpenseCategory |->
        CASE c = "TRANSPORT" -> "Transport"
          [] c = "ACCOMMODATION" -> "Zhilyo"
          [] c = "FOOD" -> "Eda"
          [] c = "ENTERTAINMENT" -> "Razvlecheniya"
          [] c = "SHOPPING" -> "Shopping"
          [] c = "SIGHTSEEING" -> "Dostoprimechatelnosti"
          [] c = "OTHER" -> "Drugoe"]

\* ExpenseCategory(text): the member whose value is text
ExpenseCategoryOf(text) ==
    CHOOSE c \in ExpenseCategory : ExpenseCategoryValue[c] = text

TripStatus == {"PLANNED", "IN_PROGRESS", "COMPLETED", "CANCELLED"}

\* TripStatus.X.value (the display text, transliterated)
TripStatusValue ==
    [s \in TripStatus |->
        CASE s = "PLANNED" -> "Zaplanirovano"
          [] s = "IN_PROGRESS" -> "V processe"
          [] s = "COMPLETED" -> "Zaversheno"
          [] s = "CANCELLED" -> "Otmeneno"]

\* TripStatus(text): the member whose value is text
TripStatusOf(text) == CHOOSE s \in TripStatus : TripStatusValue[s] = text

\* Trip(...): the dataclass with its defaults
Trip(id, name, start_date, end_date, budget, actual_spent, status) ==
    [id |-> id, name |-> name, description |-> "", start_date |-> start_date,
     end_date |-> end_date, budget |-> budget, actual_spent |-> actual_spent,
     currency |-> "USD", destination |-> "", status |-> status,
     participants |-> ""]

\* the fields of an Expense object once __post_init__ has accepted it
ExpenseObject(id, trip_id, amount, category, date) ==
    [id |-> id, trip_id |-> trip_id, amount |-> amount, currency |-> "USD",
     category |-> category, date |-> date, description |-> "",
     payment_method |-> "Nalichnye", location |-> ""]

\* variant of Expense: __post_init__ testing amount < 0
Expense_rejecting_negative_only(id, trip_id, amount, category, date) ==
    IF amount < 0
    THEN [raised |-> "ValueError", value |-> None]
    ELSE [raised |-> "none",
          value |-> Some(ExpenseObject(id, trip_id, amount, category, date))]

\* Expense(...): dataclass construction followed by __post_init__
Expense(id, trip_id, amount, category, date) ==
    IF amount <= 0
    THEN [raised |-> "ValueError", value |-> None]
    ELSE [raised |-> "none",
          value |-> Some(ExpenseObject(id, trip_id, amount, category, date))]

\* date.isoformat()
isoformat(d) == <<d.year, d.month, d.day>>

\* date.fromisoformat(text), for the texts isoformat produces
fromisoformat(text) == [year |-> text[1], month |-> text[2], day |-> text[3]]

(***************************************************************************)
(* storage.py: the SQLite database                                         *)
(***************************************************************************)
\* sqlite3.connect() never issues PRAGMA foreign_keys = ON, so the
\* connection keeps SQLite's default: foreign-key enforcement off.
foreign_keys == FALSE

\* the database _init_db creates in a fresh file: two empty tables, and
\* sqlite_sequence holding the largest rowid each AUTOINCREMENT table used
EmptyDb ==
    [trips |-> {}, expenses |-> {},
     sqlite_sequence |-> [trips |-> 0, expenses |-> 0]]

\* SELECT COALESCE(SUM(amount), 0) over a set of expense rows
RECURSIVE SumAmount(_)
SumAmount(rows) ==
    IF rows = {} THEN 0
    ELSE LET r == CHOOSE x \in rows : TRUE
         IN r.amount + SumAmount(rows \ {r})

\* the expense rows WHERE trip_id = ?
ExpenseRowsOf(d, trip_id) == {e \in d.expenses : e.trip_id = trip_id}

\* the column value of an optional date: its ISO text, or NULL
DateColumn(optdate) == IF optdate # None THEN isoformat(optdate[1]) ELSE NULL

\* the optional date of a column value
DateOfColumn(col) == IF col # NULL THEN Some(fromisoformat(col)) ELSE None

\* variant of TripRow: budget and actual_spent bound to each other's column
TripRow_amounts_swapped(id, trip) ==
    [id |-> id, name |-> trip.name, description |-> trip.description,
     start_date |-> DateColumn(trip.start_date),
     end_date |-> DateColumn(trip.end_date),
     budget |-> trip.actual_spent, actual_spent |-> trip.budget,
     currency |-> trip.currency, destination |-> trip.destination,
     status |-> TripStatusValue[trip.status],
     participants |-> trip.participants]

\* the trips row the INSERT / UPDATE statements write for a Trip object
TripRow(id, trip) ==
    [id |-> id, name |-> trip.name, description |-> trip.description,
     start_date |-> DateColumn(trip.start_date),
     end_date |-> DateColumn(trip.end_date),
     budget |-> trip.budget, actual_spent |-> trip.actual_spent,
     currency |-> trip.currency, destination |-> trip.destination,
     status |-> TripStatusValue[trip.status],
     participants |-> trip.participants]

\* the Trip object get_all_trips builds from a row
TripOfRow(row) ==
    [id |-> Some(row.id), name |-> row.name, description |-> row.description,
     start_date |-> DateOfColumn(row.start_date),
     end_date |-> DateOfColumn(row.end_date),
     budget |-> row.budget, actual_spent |-> row.actual_spent,
     currency |-> row.currency, destination |-> row.destination,
     status |-> TripStatusOf(row.status),
     participants |-> row.participants]

\* the expenses row the INSERT statement writes for an Expense object
ExpenseRow(id, expense) ==
    [id |-> id, trip_id |-> expense.trip_id, amount |-> expense.amount,
     currency |-> expense.currency,
     category |-> ExpenseCategoryValue[expense.category],
     date |-> DateColumn(expense.date), description |-> expense.description,
     payment_method |-> expense.payment_method,
     location |-> expense.location]

\* the Expense object get_expenses_by_trip builds from a row
ExpenseOfRow(row) ==
    Expense(Some(row.id), row.trip_id, row.amount,
            ExpenseCategoryOf(row.category), DateOfColumn(row.date))

\* variant of add_trip: the id column without AUTOINCREMENT (the largest
\* id in the table plus one)
add_trip_without_autoincrement(d, trip) ==
    LET ids == {t.id : t \in d.trips}
        trip_id == IF ids = {} THEN 1
                   ELSE (CHOOSE a \in ids : \A b \in ids : b <= a) + 1
    IN [db |-> [d EXCEPT !.trips = @ \cup {TripRow(trip_id, trip)}],
        ret |-> IF trip_id # 0 THEN trip_id ELSE 0,
        raised |-> "none"]

\* TravelStorage.add_trip
add_trip(d, trip) ==
    LET trip_id == d.sqlite_sequence.trips + 1
    IN [db |-> [d EXCEPT !.trips = @ \cup {TripRow(trip_id, trip)},
                         !.sqlite_sequence.trips = trip_id],
        ret |-> IF trip_id # 0 THEN trip_id ELSE 0,
        raised |-> "none"]

\* variant of add_expense: actual_spent incremented by the new amount
add_expense_incrementing(d, expense) ==
    LET expense_id == d.sqlite_sequence.expenses + 1
        inserted == [d EXCEPT !.expenses = @ \cup {ExpenseRow(expense_id, expense)},
                              !.sqlite_sequence.expenses = expense_id]
    IN [db |-> [inserted EXCEPT !.trips =
                    {IF t.id = expense.trip_id
                     THEN [t EXCEPT !.actual_spent = @ + expense.amount]
                     ELSE t : t \in @}],
        ret |-> IF expense_id # 0 THEN expense_id ELSE 0,
        raised |-> "none"]

\* TravelStorage.add_expense
add_expense(d, expense) ==
    LET expense_id == d.sqlite_sequence.expenses + 1
        inserted == [d EXCEPT !.expenses = @ \cup {ExpenseRow(expense_id, expense)},
                              !.sqlite_sequence.expenses = expense_id]
        total == SumAmount(ExpenseRowsOf(inserted, expense.trip_id))
    IN IF foreign_keys /\ \A t \in d.trips : t.id # expense.trip_id
       THEN [db |-> d, ret |-> 0, raised |-> "IntegrityError"]
       ELSE [db |-> [inserted EXCEPT !.trips =
                        {IF t.id = expense.trip_id
                         THEN [t EXCEPT !.actual_spent = total]
                         ELSE t : t \in @}],
             ret |-> IF expense_id # 0 THEN expense_id ELSE 0,
             raised |-> "none"]

\* TravelStorage.delete_trip
delete_trip(d, trip_id) ==
    LET rowcount == Cardinality({t \in d.trips : t.id = trip_id})
    IN [db |-> [d EXCEPT !.trips = {t \in @ : t.id # trip_id},
                         !.expenses =
                            IF foreign_keys
                            THEN {e \in @ : e.trip_id # trip_id}
                            ELSE @],
        ret |-> rowcount > 0,
        raised |-> "none"]

\* variant of delete_expense: the trips' actual_spent recomputed afterwards
delete_expense_recomputing(d, expense_id) ==
    LET rowcount == Cardinality({e \in d.expenses : e.id = expense_id})
        left == {e \in d.expenses : e.id # expense_id}
    IN [db |-> [d EXCEPT !.expenses = left,
                         !.trips =
                            {[t EXCEPT !.actual_spent =
                                SumAmount({e \in left : e.trip_id = t.id})] :
                             t \in @}],
        ret |-> rowcount > 0,
        raised |-> "none"]

\* TravelStorage.delete_expense
delete_expense(d, expense_id) ==
    LET rowcount == Cardinality({e \in d.expenses : e.id = expense_id})
    IN [db |-> [d EXCEPT !.expenses = {e \in @ : e.id # expense_id}],
        ret |-> rowcount > 0,
        raised |-> "none"]

\* variant of update_trip: INSERT OR REPLACE in place of UPDATE
update_trip_upserting(d, trip) ==
    LET matches == {t \in d.trips : trip.id # None /\ t.id = trip.id[1]}
    IN [db |-> [d EXCEPT !.trips =
                    IF trip.id = None THEN @
                    ELSE (@ \ matches) \cup {TripRow(trip.id[1], trip)}],
        ret |-> trip.id # None,
        raised |-> "none"]

\* TravelStorage.update_trip (WHERE id = NULL matches no row)
update_trip(d, trip) ==
    LET matches == {t \in d.trips : trip.id # None /\ t.id = trip.id[1]}
    IN [db |-> [d EXCEPT !.trips =
                    {IF t \in matches THEN TripRow(t.id, trip) ELSE t : t \in @}],
        ret |-> Cardinality(matches) > 0,
        raised |-> "none"]

\* the rows of a set in descending order of id
RECURSIVE ByIdDesc(_)
ByIdDesc(rows) ==
    IF rows = {} THEN <<>>
    ELSE LET r == CHOOSE x \in rows : \A y \in rows : y.id <= x.id
         IN <<r>> \o ByIdDesc(rows \ {r})

\* TravelStorage.get_all_trips: SELECT * FROM trips ORDER BY id DESC
get_all_trips(d) ==
    LET rows == ByIdDesc(d.trips)
    IN [i \in 1..Len(rows) |-> TripOfRow(rows[i])]

\* SQLite's order on a date column: NULL first, then texts compared
\* left to right (ISO texts compare as their dates do)
DateColumnLess(a, b) ==
    IF a = NULL THEN b # NULL
    ELSE /\ b # NULL
         /\ \/ a[1] < b[1]
            \/ a[1] = b[1] /\ a[2] < b[2]
            \/ a[1] = b[1] /\ a[2] = b[2] /\ a[3] < b[3]

\* the rows of a set ORDER BY date DESC; rows of equal date in rowid order
RECURSIVE ByDateDesc(_)
ByDateDesc(rows) ==
    IF rows = {} THEN <<>>
    ELSE LET r == CHOOSE x \in rows : \A y \in rows \ {x} :
                      \/ DateColumnLess(y.date, x.date)
                      \/ y.date = x.date /\ x.id < y.id
         IN <<r>> \o ByDateDesc(rows \ {r})

\* TravelStorage.get_expenses_by_trip
get_expenses_by_trip(d, trip_id) ==
    LET rows == ByDateDesc(ExpenseRowsOf(d, trip_id))
    IN [i \in 1..Len(rows) |-> ExpenseOfRow(rows[i]).value[1]]

\* TravelStorage.get_total_expenses_by_trip
get_total_expenses_by_trip(d, trip_id) == SumAmount(ExpenseRowsOf(d, trip_id))

(***************************************************************************)
(* api_client.py: the client of the external services                      *)
(*                                                                         *)
(* A JSON value inside a body is a record [type, value]; a JSON object is  *)
(* a dict.  A rate is kept in hundredths, so amount * rate is in           *)
(* hundredths too.  sessions holds the aiohttp.ClientSession objects       *)
(* created so far, "open" or "closed"; a client's session field is None or *)
(* the index of one of them.                                               *)
(***************************************************************************)
\* the empty dict
EmptyDict == <<>>

JsonNumber(n) == [type |-> "number", value |-> n]

JsonNull == [type |-> "null", value |-> 0]

\* TravelAPIClient.__init__
TravelAPIClient == [session |-> None]

\* SyncTravelAPIClient.__init__
SyncTravelAPIClient == [client |-> TravelAPIClient]

\* TravelAPIClient.create_session: the client and the sessions afterwards
create_session(self, created) ==
    IF self.session = None
    THEN [self |-> [self EXCEPT !.session = Some(Len(created) + 1)],
          sessions |-> Append(created, "open")]
    ELSE [self |-> self, sessions |-> created]

\* TravelAPIClient.close_session
close_session(self, created) ==
    IF self.session # None
    THEN [self |-> [self EXCEPT !.session = None],
          sessions |-> [created EXCEPT ![self.session[1]] = "closed"]]
    ELSE [self |-> self, sessions |-> created]

\* what the endpoint does with a request: the transport fails, or a response
\* with a status and a body arrives (body None when it is not JSON)
TransportError == [kind |-> "error", status |-> 0, body |-> None]
Response(status, body) == [kind |-> "response", status |-> status, body |-> body]

\* the status of a successful response
HTTP_OK == 200

\* the outcome of a coroutine: the exception reaching the caller ("none" when
\* it returns) and the Optional value returned
Returned(value) == [raised |-> "none", value |-> value]
Raised(exception) == [raised |-> exception, value |-> None]

\* self.session.get(url, ...): AttributeError when self.session is None, the
\* transport's error, or the response
session_get(self, response) ==
    IF self.session = None THEN Raised("AttributeError")
    ELSE IF response.kind = "error" THEN Raised("ClientError")
    ELSE Returned(Some(response))

\* dict.get(key, {})
dict_get(dict, key) == IF key \in DOMAIN dict THEN dict[key] ELSE EmptyDict

\* TravelAPIClient.get_exchange_rates: every exception of the body is caught
\* and None returned
get_exchange_rates(self, base_currency, response) ==
    LET got == session_get(self, response)
    IN IF got.raised # "none" THEN Returned(None)
       ELSE IF got.value[1].status = HTTP_OK
       THEN IF got.value[1].body = None THEN Returned(None)
            ELSE Returned(Some(dict_get(got.value[1].body[1], "rates")))
       ELSE Returned(None)

\* TravelAPIClient.convert_currency: no try around the multiplication
convert_currency(self, amount, from_currency, to_currency, response) ==
    LET rates == get_exchange_rates(self, from_currency, response).value
    IN IF rates # None /\ DOMAIN rates[1] # {} /\ to_currency \in DOMAIN rates[1]
       THEN LET rate == rates[1][to_currency]
            IN IF rate.type = "number" THEN Returned(Some(amount * rate.value))
               ELSE Raised("TypeError")
       ELSE Returned(None)

\* the placeholder key of get_weather_forecast
api_key == "YOUR_API_KEY"

\* TravelAPIClient.get_weather_forecast: returns before any request while the
\* key is the placeholder; otherwise the first days * 3 entries of the
\* body's list, flattened, with the city's name and country (a missing key
\* raises inside the try)
get_weather_forecast(self, city, days, response) ==
    IF api_key = "YOUR_API_KEY" THEN Returned(None)
    ELSE LET got == session_get(self, response)
         IN IF got.raised # "none" THEN Returned(None)
            ELSE IF got.value[1].status = HTTP_OK
            THEN IF got.value[1].body = None
                    \/ "city" \notin DOMAIN got.value[1].body[1]
                 THEN Returned(None)
                 ELSE LET data == got.value[1].body[1]
                          list == IF "list" \in DOMAIN data THEN data.list ELSE <<>>
                          kept == SubSeq(list, 1, IF Len(list) < days * 3
                                                  THEN Len(list) ELSE days * 3)
                      IN Returned(Some(
                            [city |-> data.city.name,
                             country |-> data.city.country,
                             forecast |->
                                [i \in 1..Len(kept) |->
                                    [datetime |-> kept[i].dt,
                                     temp |-> kept[i].main.temp,
                                     feels_like |-> kept[i].main.feels_like,
                                     humidity |-> kept[i].main.humidity,
                                     description |-> kept[i].weather[1].description,
                                     icon |-> kept[i].weather[1].icon]]]))
            ELSE Returned(None)

\* str.upper() of a country code
upper(text) ==
    CASE text = "fr" -> "FR"
      [] text = "de" -> "DE"
      [] OTHER -> text

\* TravelAPIClient.get_travel_advisory
get_travel_advisory(self, country_code, response) ==
    LET got == session_get(self, response)
    IN IF got.raised # "none" THEN Returned(None)
       ELSE IF got.value[1].status = HTTP_OK
       THEN IF got.value[1].body = None THEN Returned(None)
            ELSE Returned(Some(dict_get(dict_get(got.value[1].body[1], "data"),
                                        upper(country_code))))
       ELSE Returned(None)

\* SyncTravelAPIClient.get_exchange_rates: the coroutine of the wrapped
\* client run to completion on a new event loop
sync_get_exchange_rates(self, base_currency, response) ==
    get_exchange_rates(self.client, base_currency, response)

\* SyncTravelAPIClient.convert_currency
sync_convert_currency(self, amount, from_currency, to_currency, response) ==
    convert_currency(self.client, amount, from_currency, to_currency, response)

(***************************************************************************)
(* gui.py: the widgets of the window                                       *)
(*                                                                         *)
(* A text shown in a picker is the sequence of its pieces, a number being  *)
(* written digit by digit: "1: Paris ()" is                                *)
(* <<"1", ":", " ", "Paris", " ", "(", "", ")">>.                          *)
(***************************************************************************)
\* the first entry of the pickers: "Vse puteshestviya" (all trips)
all_trips_option == <<"Vse puteshestviya">>

\* a ttk.Combobox: the values offered and the text of its variable
Combobox(values, text) == [values |-> values, text |-> text]

\* no handler has run yet
NoHandler == [name |-> "__init__", input |-> <<>>, dialog |-> "none", calls |-> <<>>]

\* TravelTrackerApp.__init__ on a fresh database: the fields set, the
\* widgets built by _setup_ui and filled by the first _load_trips.
\* current_trip_at is the place in current_trips of the object that
\* current_trip refers to (0: none of them); trips_tree is the id of the
\* row selected in the list of trips; figures counts pyplot's open figures
NewWindow ==
    [current_trips |-> <<>>, current_trip |-> None, current_trip_at |-> 0,
     trips_tree |-> None, current_expenses |-> <<>>,
     trip_combobox |-> Combobox(<<all_trips_option>>, all_trips_option),
     analytics_trip_combobox |-> Combobox(<<all_trips_option>>, all_trips_option),
     export_trip_combobox |-> Combobox(<<all_trips_option>>, all_trips_option),
     figures |-> 0]

(***************************************************************************)
(* The storage layer driven by an arbitrary caller                         *)
(***************************************************************************)
\* tests.py: the dates of the fixtures
D1 == [year |-> 2024, month |-> 6, day |-> 1]

D2 == [year |-> 2024, month |-> 6, day |-> 10]

TripIds == 1..MaxTrips

ExpenseIds == 1..MaxExpenses

\* Trip objects a caller passes in: a planned trip with dates and nothing
\* spent, and a completed one without dates carrying a spent amount
TripFields ==
    {Trip(None, "Paris", Some(D1), Some(D2), 1000, 0, "PLANNED"),
     Trip(None, "Rome", None, None, 0, 150, "COMPLETED")}

\* Trip objects passed to update_trip: any fields, with or without an id
TripUpdates ==
    {[t EXCEPT !.id = i] : t \in TripFields, i \in {None} \cup {Some(k) : k \in TripIds}}

\* Expense objects a caller passes in (those the constructor accepts)
ExpenseInputs ==
    {Expense(None, t, a, cd[1], cd[2]).value[1] :
        t \in TripIds, a \in {100, 150},
        cd \in {<<"FOOD", None>>, <<"TRANSPORT", Some(D1)>>}}

NoCall == [op |-> "init", id |-> 0, trip |-> None, expense |-> None]

Init ==
    /\ db = EmptyDb
    /\ pre = EmptyDb
    /\ call = NoCall
    /\ ret = 0
    /\ raised = "none"
    /\ ncalls = 0
    /\ issued = <<>>
    /\ fn = "none"
    /\ args = <<>>
    /\ out = <<>>
    /\ client = TravelAPIClient
    /\ sync = SyncTravelAPIClient
    /\ sessions = <<>>
    /\ scopes = 0
    /\ current_trips = NewWindow.current_trips
    /\ current_trip = NewWindow.current_trip
    /\ current_trip_at = NewWindow.current_trip_at
    /\ trips_tree = NewWindow.trips_tree
    /\ current_expenses = NewWindow.current_expenses
    /\ trip_combobox = NewWindow.trip_combobox
    /\ analytics_trip_combobox = NewWindow.analytics_trip_combobox
    /\ export_trip_combobox = NewWindow.export_trip_combobox
    /\ figures = NewWindow.figures
    /\ handler = NoHandler
    /\ started = [db |-> EmptyDb, window |-> NewWindow]
    /\ nops = 0

\* one call of a storage method: the database, the value returned and
\* the exception raised are the method's; pre keeps the database before it,
\* issued the ids add_trip has returned so far, in the order of the calls
Called(c, r) ==
    /\ ncalls < MaxCalls
    /\ ncalls' = ncalls + 1
    /\ pre' = db
    /\ call' = c
    /\ db' = r.db
    /\ ret' = r.ret
    /\ raised' = r.raised
    /\ issued' = IF c.op = "add_trip" THEN Append(issued, r.ret) ELSE issued
    /\ UNCHANGED <<pureVars, apiVars, uiVars>>

AddTrip ==
    \E t \in TripFields :
        /\ db.sqlite_sequence.trips < MaxTrips
        /\ Called([NoCall EXCEPT !.op = "add_trip", !.trip = Some(t)],
                  add_trip(db, t))

AddExpense ==
    \E e \in ExpenseInputs :
        /\ db.sqlite_sequence.expenses < MaxExpenses
        /\ Called([NoCall EXCEPT !.op = "add_expense", !.expense = Some(e)],
                  add_expense(db, e))

DeleteTrip ==
    \E i \in TripIds :
        Called([NoCall EXCEPT !.op = "delete_trip", !.id = i],
               delete_trip(db, i))

DeleteExpense ==
    \E i \in ExpenseIds :
        Called([NoCall EXCEPT !.op = "delete_expense", !.id = i],
               delete_expense(db, i))

UpdateTrip ==
    \E t \in TripUpdates :
        Called([NoCall EXCEPT !.op = "update_trip", !.trip = Some(t)],
               update_trip(db, t))

Next == AddTrip \/ AddExpense \/ DeleteTrip \/ DeleteExpense \/ UpdateTrip

Spec == Init /\ [][Next]_vars

(***************************************************************************)
(* utils.py: validate_date_range                                           *)
(*                                                                         *)
(* A date text is the sequence of the numbers between its dashes:          *)
(* "2024-06-01" is <<2024, 6, 1>>, "2024-06" is <<2024, 6>>, "" is <<>>.   *)
(***************************************************************************)
\* the number of days of a month, as the date constructor checks it
DaysInMonth(year, month) ==
    IF month = 2
    THEN IF year % 4 = 0 /\ (year % 100 # 0 \/ year % 400 = 0) THEN 29 ELSE 28
    ELSE IF month \in {4, 6, 9, 11} THEN 30 ELSE 31

\* datetime.strptime(text, '%Y-%m-%d').date(): ValueError unless the text
\* has the three fields of a calendar date
strptime_date(text) ==
    IF /\ Len(text) = 3
       /\ text[1] \in 1..9999
       /\ text[2] \in 1..12
       /\ text[3] \in 1..DaysInMonth(text[1], text[2])
    THEN [raised |-> "none",
          value |-> Some([year |-> text[1], month |-> text[2], day |-> text[3]])]
    ELSE [raised |-> "ValueError", value |-> None]

\* a < b on datetime.date
DateLess(a, b) ==
    \/ a.year < b.year
    \/ a.year = b.year /\ a.month < b.month
    \/ a.year = b.year /\ a.month = b.month /\ a.day < b.day

MsgLater == "Data nachala ne mozhet byt pozzhe daty okonchaniya"

MsgPast == "Data nachala ne mozhet byt v proshlom (dlya novyh poezdok)"

MsgFormat == "Nevernyi format daty. Ispolzuite GGGG-MM-DD"

\* variant of validate_date_range: the past-date check made before the
\* comparison of the two dates
validate_date_range_past_first(start_date_str, end_date_str, today) ==
    LET start == strptime_date(start_date_str)
        end == strptime_date(end_date_str)
    IN IF start.raised # "none" \/ end.raised # "none"
       THEN <<FALSE, MsgFormat>>
       ELSE IF DateLess(start.value[1], today)
            THEN <<FALSE, MsgPast>>
            ELSE IF DateLess(end.value[1], start.value[1])
                 THEN <<FALSE, MsgLater>>
                 ELSE <<TRUE, "">>

\* validate_date_range, called on the calendar day today
validate_date_range(start_date_str, end_date_str, today) ==
    LET start == strptime_date(start_date_str)
        end == strptime_date(end_date_str)
    IN IF start.raised # "none" \/ end.raised # "none"
       THEN <<FALSE, MsgFormat>>
       ELSE IF DateLess(end.value[1], start.value[1])
            THEN <<FALSE, MsgLater>>
            ELSE IF DateLess(start.value[1], today)
                 THEN <<FALSE, MsgPast>>
                 ELSE <<TRUE, "">>

(***************************************************************************)
(* utils.py: validate_currency_amount                                      *)
(*                                                                         *)
(* An amount text is the sequence of its characters; the float parsed      *)
(* from it is held in hundredths (150.5 is 15050).                         *)
(***************************************************************************)
Digits == {"0", "1", "2", "3", "4", "5", "6", "7", "8", "9"}

\* the value of a digit character
DigitValue(c) ==
    CASE c = "0" -> 0 [] c = "1" -> 1 [] c = "2" -> 2 [] c = "3" -> 3
      [] c = "4" -> 4 [] c = "5" -> 5 [] c = "6" -> 6 [] c = "7" -> 7
      [] c = "8" -> 8 [] c = "9" -> 9

\* str.strip(): leading and trailing whitespace removed
RECURSIVE strip(_)
strip(text) ==
    IF text = <<>> THEN text
    ELSE IF Head(text) = " " THEN strip(Tail(text))
    ELSE IF text[Len(text)] = " " THEN strip(SubSeq(text, 1, Len(text) - 1))
    ELSE text

\* str.replace(',', '.')
replace_commas(text) ==
    [i \in 1..Len(text) |-> IF text[i] = "," THEN "." ELSE text[i]]

\* the number of leading characters of a text that \d matches
RECURSIVE LeadingDigits(_)
LeadingDigits(text) ==
    IF text = <<>> \/ Head(text) \notin Digits THEN 0
    ELSE 1 + LeadingDigits(Tail(text))

\* re.match(r'^\d+(\.\d{1,2})?$', text)
MatchesAmountPattern(text) ==
    LET n == LeadingDigits(text)
        rest == SubSeq(text, n + 1, Len(text))
    IN /\ n >= 1
       /\ \/ rest = <<>>
          \/ /\ Head(rest) = "."
             /\ LeadingDigits(Tail(rest)) = Len(rest) - 1
             /\ Len(rest) - 1 \in {1, 2}

\* the number a run of digits writes
RECURSIVE DigitsValue(_)
DigitsValue(digits) ==
    IF digits = <<>> THEN 0
    ELSE DigitsValue(SubSeq(digits, 1, Len(digits) - 1)) * 10
            + DigitValue(digits[Len(digits)])

\* float(text) for a text the pattern matched, in hundredths
float_hundredths(text) ==
    LET n == LeadingDigits(text)
        frac == SubSeq(text, n + 2, Len(text))
    IN DigitsValue(SubSeq(text, 1, n)) * 100
        + (IF Len(frac) = 1 THEN DigitsValue(frac) * 10 ELSE DigitsValue(frac))

MsgAmountFormat ==
    "Nevernyi format summy. Ispolzuite chisla s maksimum dvumya znakami posle zapyatoi"

MsgAmountPositive == "Summa dolzhna byt polozhitelnoi"

\* variant of validate_currency_amount: testing amount < 0
validate_currency_amount_accepting_zero(amount_str) ==
    LET clean_str == replace_commas(strip(amount_str))
    IN IF ~MatchesAmountPattern(clean_str)
       THEN <<FALSE, 0, MsgAmountFormat>>
       ELSE IF float_hundredths(clean_str) < 0
            THEN <<FALSE, 0, MsgAmountPositive>>
            ELSE <<TRUE, float_hundredths(clean_str), "">>

\* validate_currency_amount (float() cannot fail on a matched text)
validate_currency_amount(amount_str) ==
    LET clean_str == replace_commas(strip(amount_str))
    IN IF ~MatchesAmountPattern(clean_str)
       THEN <<FALSE, 0, MsgAmountFormat>>
       ELSE IF float_hundredths(clean_str) <= 0
            THEN <<FALSE, 0, MsgAmountPositive>>
            ELSE <<TRUE, float_hundredths(clean_str), "">>

(***************************************************************************)
(* models.py: the derived values of a Trip                                 *)
(***************************************************************************)
\* the days of the months of a year before a month
RECURSIVE DaysBeforeMonth(_, _)
DaysBeforeMonth(year, month) ==
    IF month <= 1 THEN 0
    ELSE DaysBeforeMonth(year, month - 1) + DaysInMonth(year, month - 1)

\* date.toordinal(): the number of the day, 0001-01-01 being day 1
toordinal(d) ==
    LET y == d.year - 1
    IN y * 365 + (y \div 4) - (y \div 100) + (y \div 400)
        + DaysBeforeMonth(d.year, d.month) + d.day

\* (a - b).days on datetime.date
DaysBetween(a, b) == toordinal(a) - toordinal(b)

\* variant of duration_days: the last day not counted
duration_days_exclusive(trip) ==
    IF trip.start_date # None /\ trip.end_date # None
    THEN DaysBetween(trip.end_date[1], trip.start_date[1])
    ELSE 0

\* Trip.duration_days
duration_days(trip) ==
    IF trip.start_date # None /\ trip.end_date # None
    THEN DaysBetween(trip.end_date[1], trip.start_date[1]) + 1
    ELSE 0

\* Trip.budget_balance
budget_balance(trip) == trip.budget - trip.actual_spent

(***************************************************************************)
(* analysis.py: TravelAnalyzer                                             *)
(*                                                                         *)
(* A pandas DataFrame is its set of column names and its sequence of rows; *)
(* built from an empty list it has no columns, and reading a column it     *)
(* lacks raises KeyError.  A quotient is kept as [num, den].               *)
(***************************************************************************)
\* pd.DataFrame(data) for a list of dicts with the given keys
DataFrame(data, keys) ==
    [columns |-> IF data = <<>> THEN {} ELSE keys, rows |-> data]

\* DataFrame.empty
IsEmpty(df) == df.rows = <<>> \/ df.columns = {}

TripColumns ==
    {"id", "name", "destination", "start_date", "end_date", "duration_days",
     "budget", "actual_spent", "budget_balance", "currency", "status",
     "participants_count"}

ExpenseColumns ==
    {"id", "trip_id", "amount", "currency", "category", "date", "description",
     "payment_method", "location"}

\* TravelAnalyzer._create_trips_dataframe (participants_count, which no
\* operation reads, is not kept in the rows)
create_trips_dataframe(trips) ==
    DataFrame([i \in 1..Len(trips) |->
                 [id |-> trips[i].id, name |-> trips[i].name,
                  destination |-> trips[i].destination,
                  start_date |-> trips[i].start_date,
                  end_date |-> trips[i].end_date,
                  duration_days |-> duration_days(trips[i]),
                  budget |-> trips[i].budget,
                  actual_spent |-> trips[i].actual_spent,
                  budget_balance |-> budget_balance(trips[i]),
                  currency |-> trips[i].currency,
                  status |-> TripStatusValue[trips[i].status]]],
              TripColumns)

\* TravelAnalyzer._create_expenses_dataframe
create_expenses_dataframe(expenses) ==
    DataFrame([i \in 1..Len(expenses) |->
                 [id |-> expenses[i].id, trip_id |-> expenses[i].trip_id,
                  amount |-> expenses[i].amount,
                  currency |-> expenses[i].currency,
                  category |-> ExpenseCategoryValue[expenses[i].category],
                  date |-> expenses[i].date,
                  description |-> expenses[i].description,
                  payment_method |-> expenses[i].payment_method,
                  location |-> expenses[i].location]],
              ExpenseColumns)

\* TravelAnalyzer.__init__
TravelAnalyzer(trips, expenses) ==
    [trips |-> trips, expenses |-> expenses,
     df_trips |-> create_trips_dataframe(trips),
     df_expenses |-> create_expenses_dataframe(expenses)]

\* df[df[column] == value].rows, for a frame that has the column
RowsWhere(df, column, value) ==
    SelectSeq(df.rows, LAMBDA r : r[column] = value)

\* Series.sum() of the amounts of a sequence of rows
RECURSIVE SumRows(_)
SumRows(rows) ==
    IF rows = <<>> THEN 0 ELSE Head(rows).amount + SumRows(Tail(rows))

\* Series.max() of the amounts of a non-empty sequence of rows
MaxRows(rows) ==
    LET amounts == {rows[i].amount : i \in 1..Len(rows)}
    IN CHOOSE a \in amounts : \A b \in amounts : b <= a

\* groupby('category')['amount'].sum().to_dict()
SumByCategory(rows) ==
    [c \in {rows[i].category : i \in 1..Len(rows)} |->
        SumRows(SelectSeq(rows, LAMBDA r : r.category = c))]

\* the category values in the order groupby sorts them (the order of the
\* texts: Dostoprimechatelnosti, Drugoe, Eda, Zhilyo, Razvlecheniya,
\* Transport, Shopping in the Cyrillic alphabet)
CategoriesSorted ==
    <<"Dostoprimechatelnosti", "Drugoe", "Eda", "Zhilyo", "Razvlecheniya",
      "Transport", "Shopping">>

\* the summary returned for a trip without expenses
ZeroSummary ==
    [total |-> 0, by_category |-> <<>>, daily_avg |-> [num |-> 0, den |-> 1],
     max_expense |-> 0, expense_count |-> 0]

\* the body of get_trip_expense_summary for a non-empty selection
SummaryOfRows(rows) ==
    LET total == SumRows(rows)
        dated == SelectSeq(rows, LAMBDA r : r.date # None)
        ords == {toordinal(dated[i].date[1]) : i \in 1..Len(dated)}
        days == IF Len(dated) > 1
                THEN (CHOOSE a \in ords : \A b \in ords : b <= a)
                        - (CHOOSE a \in ords : \A b \in ords : a <= b) + 1
                ELSE 1
    IN [total |-> total,
        by_category |-> SumByCategory(rows),
        daily_avg |-> [num |-> total, den |-> IF days > 0 THEN days ELSE 1],
        max_expense |-> MaxRows(rows),
        expense_count |-> Len(rows)]

\* variant of get_trip_expense_summary: the selection by trip_id left out
get_trip_expense_summary_unfiltered(analyzer, trip_id) ==
    IF IsEmpty(analyzer.df_expenses) THEN EmptyDict
    ELSE LET trip_expenses == analyzer.df_expenses.rows
         IN IF trip_expenses = <<>> THEN ZeroSummary
            ELSE SummaryOfRows(trip_expenses)

\* TravelAnalyzer.get_trip_expense_summary
get_trip_expense_summary(analyzer, trip_id) ==
    IF IsEmpty(analyzer.df_expenses) THEN EmptyDict
    ELSE LET trip_expenses == RowsWhere(analyzer.df_expenses, "trip_id", trip_id)
         IN IF trip_expenses = <<>> THEN ZeroSummary
            ELSE SummaryOfRows(trip_expenses)

\* the entries of a recommendation list: the text's kind and, for a category
\* warning, the category it names (the formatted figures are left out)
NoDataEntry == [kind |-> "no_data", category |-> ""]
CategoryWarning(category) == [kind |-> "category", category |-> category]
HighSpendingWarning == [kind |-> "high", category |-> ""]
GreatSavingsNote == [kind |-> "savings", category |-> ""]
WellBalancedNote == [kind |-> "balanced", category |-> ""]

\* the limit of the slice recommendations[:5]
MaxRecommendations == 5

\* the loop over by_category.items(): one warning per category, in the
\* dict's order, whose percentage (amount / total) * 100 is above 50
RECURSIVE CategoryWarnings(_, _, _)
CategoryWarnings(categories, by_category, total) ==
    IF categories = <<>> THEN <<>>
    ELSE LET category == Head(categories)
             rest == CategoryWarnings(Tail(categories), by_category, total)
         IN IF category \in DOMAIN by_category
                /\ by_category[category] * 100 > 50 * total
            THEN <<CategoryWarning(category)>> \o rest
            ELSE rest

\* the daily-average branch: above 200, else below 50
DailyWarnings(daily_avg) ==
    IF daily_avg.num > 200 * daily_avg.den THEN <<HighSpendingWarning>>
    ELSE IF daily_avg.num < 50 * daily_avg.den THEN <<GreatSavingsNote>>
    ELSE <<>>

\* variant of get_trip_recommendations: the 'well balanced' fallback left out
get_trip_recommendations_without_fallback(analyzer, trip_id) ==
    LET summary == get_trip_expense_summary(analyzer, trip_id)
    IN IF DOMAIN summary = {} \/ summary.expense_count = 0
       THEN <<NoDataEntry>>
       ELSE LET recommendations ==
                    IF summary.total > 0
                    THEN CategoryWarnings(CategoriesSorted, summary.by_category,
                                          summary.total)
                         \o DailyWarnings(summary.daily_avg)
                    ELSE <<>>
            IN SubSeq(recommendations, 1,
                      IF Len(recommendations) < MaxRecommendations
                      THEN Len(recommendations) ELSE MaxRecommendations)

\* variant of get_trip_recommendations: the daily average compared with >= 200
get_trip_recommendations_high_at_200(analyzer, trip_id) ==
    LET summary == get_trip_expense_summary(analyzer, trip_id)
    IN IF DOMAIN summary = {} \/ summary.expense_count = 0
       THEN <<NoDataEntry>>
       ELSE LET found ==
                    IF summary.total > 0
                    THEN CategoryWarnings(CategoriesSorted, summary.by_category,
                                          summary.total)
                         \o (IF summary.daily_avg.num >= 200 * summary.daily_avg.den
                             THEN <<HighSpendingWarning>>
                             ELSE DailyWarnings(summary.daily_avg))
                    ELSE <<>>
                recommendations ==
                    IF found = <<>> THEN <<WellBalancedNote>> ELSE found
            IN SubSeq(recommendations, 1,
                      IF Len(recommendations) < MaxRecommendations
                      THEN Len(recommendations) ELSE MaxRecommendations)

\* TravelAnalyzer.get_trip_recommendations
get_trip_recommendations(analyzer, trip_id) ==
    LET summary == get_trip_expense_summary(analyzer, trip_id)
    IN IF DOMAIN summary = {} \/ summary.expense_count = 0
       THEN <<NoDataEntry>>
       ELSE LET found ==
                    IF summary.total > 0
                    THEN CategoryWarnings(CategoriesSorted, summary.by_category,
                                          summary.total)
                         \o DailyWarnings(summary.daily_avg)
                    ELSE <<>>
                recommendations ==
                    IF found = <<>> THEN <<WellBalancedNote>> ELSE found
            IN SubSeq(recommendations, 1,
                      IF Len(recommendations) < MaxRecommendations
                      THEN Len(recommendations) ELSE MaxRecommendations)

\* df[column]: a frame built from an empty list has no columns, and
\* subscripting it raises KeyError
HasColumn(df, column) == column \in df.columns

\* how a call ends: with a value, or with an exception reaching the caller
Returns(value) == [raised |-> "none", value |-> Some(value)]
Raises(exception) == [raised |-> exception, value |-> None]

\* the texts ax.text() writes in place of a chart
NoExpenseDataText == "Net dannyh o rashodah dlya postroeniya grafika"
InsufficientDataText == "Nedostatochno dannyh dlya postroeniya grafika"
TripNotFoundText == "Informaciya o puteshestvii ne naydena"
NoTripDataText == "Net dannyh o puteshestviyah dlya postroeniya grafika"
NoStatisticsText == "Net dannyh o rashodah"

\* a matplotlib figure: the placeholder text it carries ("" when it carries
\* none) and what is drawn on it
Figure(chart, placeholder, data) ==
    [chart |-> chart, placeholder |-> placeholder, data |-> data]

\* groupby('date')['amount'].sum() after pd.to_datetime: one entry per
\* distinct date, rows without a date dropped
SumByDate(rows) ==
    LET dated == SelectSeq(rows, LAMBDA r : r.date # None)
    IN [d \in {dated[i].date[1] : i \in 1..Len(dated)} |->
            SumRows(SelectSeq(dated, LAMBDA r : r.date[1] = d))]

\* groupby('year_month')['amount'].sum() over dt.to_period('M')
SumByMonth(rows) ==
    LET dated == SelectSeq(rows, LAMBDA r : r.date # None)
        period(d) == <<d.year, d.month>>
    IN [m \in {period(dated[i].date[1]) : i \in 1..Len(dated)} |->
            SumRows(SelectSeq(dated, LAMBDA r : period(r.date[1]) = m))]

\* the trip names in the order sort_values('name') puts them
NamesSorted == <<"Paris", "Rome">>

\* df.sort_values('name'), for rows with distinct names
RECURSIVE SortByName(_, _)
SortByName(rows, names) ==
    IF names = <<>> THEN <<>>
    ELSE SelectSeq(rows, LAMBDA r : r.name = Head(names))
            \o SortByName(rows, Tail(names))

\* TravelAnalyzer.plot_expense_categories
plot_expense_categories(analyzer, trip_id) ==
    IF ~HasColumn(analyzer.df_expenses, "trip_id") THEN Raises("KeyError")
    ELSE LET trip_expenses == RowsWhere(analyzer.df_expenses, "trip_id", trip_id)
         IN IF trip_expenses = <<>>
            THEN Returns(Figure("expense_categories", NoExpenseDataText, <<>>))
            ELSE Returns(Figure("expense_categories", "",
                                SumByCategory(trip_expenses)))

\* TravelAnalyzer.plot_daily_expenses
plot_daily_expenses(analyzer, trip_id) ==
    IF ~HasColumn(analyzer.df_expenses, "trip_id") THEN Raises("KeyError")
    ELSE LET trip_expenses == RowsWhere(analyzer.df_expenses, "trip_id", trip_id)
             daily_expenses == SumByDate(trip_expenses)
         IN IF trip_expenses = <<>>
            THEN Returns(Figure("daily_expenses", NoExpenseDataText, <<>>))
            ELSE IF Cardinality(DOMAIN daily_expenses) < 2
            THEN Returns(Figure("daily_expenses", InsufficientDataText, <<>>))
            ELSE Returns(Figure("daily_expenses", "", daily_expenses))

\* TravelAnalyzer.plot_budget_vs_actual
plot_budget_vs_actual(analyzer, trip_id) ==
    IF ~HasColumn(analyzer.df_trips, "id") THEN Raises("KeyError")
    ELSE LET trip_info == RowsWhere(analyzer.df_trips, "id", Some(trip_id))
         IN IF trip_info = <<>>
            THEN Returns(Figure("budget_vs_actual", TripNotFoundText, <<>>))
            ELSE Returns(Figure("budget_vs_actual", "",
                                <<trip_info[1].budget, trip_info[1].actual_spent>>))

\* TravelAnalyzer.plot_expense_statistics: the text panel showing the
\* summary and the first three recommendations
plot_expense_statistics(analyzer, trip_id) ==
    LET summary == get_trip_expense_summary(analyzer, trip_id)
        recommendations == get_trip_recommendations(analyzer, trip_id)
        shown == SubSeq(recommendations, 1,
                        IF Len(recommendations) < 3 THEN Len(recommendations) ELSE 3)
    IN IF DOMAIN summary # {} /\ summary.expense_count > 0
       THEN Returns(Figure("expense_statistics", "",
                           [summary |-> summary, recommendations |-> shown]))
       ELSE Returns(Figure("expense_statistics", NoStatisticsText,
                           [summary |-> <<>>, recommendations |-> shown]))

\* TravelAnalyzer.plot_all_trips_budget_comparison
plot_all_trips_budget_comparison(analyzer) ==
    IF IsEmpty(analyzer.df_trips)
    THEN Returns(Figure("all_trips_budget_comparison", NoTripDataText, <<>>))
    ELSE LET df_sorted == SortByName(analyzer.df_trips.rows, NamesSorted)
         IN Returns(Figure("all_trips_budget_comparison", "",
                           [i \in 1..Len(df_sorted) |->
                               [name |-> df_sorted[i].name,
                                budget |-> df_sorted[i].budget,
                                actual_spent |-> df_sorted[i].actual_spent]]))

\* TravelAnalyzer.plot_all_trips_expenses_by_category (the order of the
\* bars, by falling total, is not kept)
plot_all_trips_expenses_by_category(analyzer) ==
    IF IsEmpty(analyzer.df_expenses)
    THEN Returns(Figure("all_trips_expenses_by_category", NoExpenseDataText, <<>>))
    ELSE Returns(Figure("all_trips_expenses_by_category", "",
                        SumByCategory(analyzer.df_expenses.rows)))

\* TravelAnalyzer.plot_trips_by_status
plot_trips_by_status(analyzer) ==
    IF IsEmpty(analyzer.df_trips)
    THEN Returns(Figure("trips_by_status", NoTripDataText, <<>>))
    ELSE LET rows == analyzer.df_trips.rows
         IN Returns(Figure("trips_by_status", "",
                           [s \in {rows[i].status : i \in 1..Len(rows)} |->
                               Len(SelectSeq(rows, LAMBDA r : r.status = s))]))

\* TravelAnalyzer.plot_monthly_expenses_trend
plot_monthly_expenses_trend(analyzer) ==
    IF IsEmpty(analyzer.df_expenses)
    THEN Returns(Figure("monthly_expenses_trend", NoExpenseDataText, <<>>))
    ELSE Returns(Figure("monthly_expenses_trend", "",
                        SumByMonth(analyzer.df_expenses.rows)))

\* f'category_{category.value}': the column of a category in the exported table
CategoryColumn ==
    [c \in ExpenseCategory |->
        CASE c = "TRANSPORT" -> "category_Transport"
          [] c = "ACCOMMODATION" -> "category_Zhilyo"
          [] c = "FOOD" -> "category_Eda"
          [] c = "ENTERTAINMENT" -> "category_Razvlecheniya"
          [] c = "SHOPPING" -> "category_Shopping"
          [] c = "SIGHTSEEING" -> "category_Dostoprimechatelnosti"
          [] c = "OTHER" -> "category_Drugoe"]

\* the row export_all_trips_to_csv builds for one row of df_trips
SummaryRow(trip, df_expenses) ==
    LET trip_expenses == RowsWhere(df_expenses, "trip_id", trip.id[1])
        expenses_by_category == SumByCategory(trip_expenses)
    IN [id |-> trip.id, name |-> trip.name, destination |-> trip.destination,
        start_date |-> trip.start_date, end_date |-> trip.end_date,
        duration_days |-> trip.duration_days, budget |-> trip.budget,
        actual_spent |-> trip.actual_spent,
        budget_balance |-> trip.budget_balance, currency |-> trip.currency,
        status |-> trip.status, expense_count |-> Len(trip_expenses),
        avg_daily_expense |->
            IF trip.duration_days > 0
            THEN [num |-> trip.actual_spent, den |-> trip.duration_days]
            ELSE [num |-> 0, den |-> 1]]
       @@ [column \in {CategoryColumn[c] : c \in ExpenseCategory} |->
            LET c == CHOOSE k \in ExpenseCategory : CategoryColumn[k] = column
            IN IF ExpenseCategoryValue[c] \in DOMAIN expenses_by_category
               THEN expenses_by_category[ExpenseCategoryValue[c]]
               ELSE 0]

\* TravelAnalyzer.export_all_trips_to_csv: the value returned and the rows
\* written to output_file (None when nothing is written); an exception in
\* the body is caught and "" returned
export_all_trips_to_csv(analyzer, output_file) ==
    IF analyzer.df_trips.rows # <<>> /\ ~HasColumn(analyzer.df_expenses, "trip_id")
    THEN [ret |-> "", file |-> None]
    ELSE [ret |-> output_file,
          file |-> Some([i \in 1..Len(analyzer.df_trips.rows) |->
                            SummaryRow(analyzer.df_trips.rows[i],
                                       analyzer.df_expenses)])]

(***************************************************************************)
(* gui.py: the handlers of the window                                      *)
(*                                                                         *)
(* A handler is an operator of the database d, the window w (the record of *)
(* the fields NewWindow lists) and what the user typed or chose; it gives  *)
(* the database and the window it leaves, the dialog it showed and the     *)
(* storage methods it called.  A typed name is a sequence of pieces (a     *)
(* word or a blank); a typed date is the fields between its dashes with a  *)
(* flag telling whether month and day are written with two digits; a typed *)
(* amount is the sequence of its characters.  The entries of the trip form *)
(* that no validation reads hold the form's defaults.                      *)
(***************************************************************************)
Outcome(d, w, dialog, calls) ==
    [db |-> d, window |-> w, dialog |-> dialog, calls |-> calls]

\* the str of a typed name once stripped (the names typed are one word)
name_text(pieces) == IF pieces = <<>> THEN "" ELSE pieces[1]

\* a typed date
DateText(fields, padded) == [fields |-> fields, padded |-> padded]

\* date.fromisoformat(text) on a typed date: YYYY-MM-DD only
date_fromisoformat(text) ==
    IF text.padded THEN strptime_date(text.fields)
    ELSE [raised |-> "ValueError", value |-> None]

\* date.today() while the window is open
date_today == D1

\* the decimal digit of a number below ten
DigitChar(k) ==
    CASE k = 0 -> "0" [] k = 1 -> "1" [] k = 2 -> "2" [] k = 3 -> "3"
      [] k = 4 -> "4" [] k = 5 -> "5" [] k = 6 -> "6" [] k = 7 -> "7"
      [] k = 8 -> "8" [] k = 9 -> "9"

\* str(n) of a natural number, digit by digit
RECURSIVE str(_)
str(n) ==
    IF n < 10 THEN <<DigitChar(n)>>
    ELSE str(n \div 10) \o <<DigitChar(n % 10)>>

\* text.split(':')[0]: the pieces before the first colon
RECURSIVE split_colon_first(_)
split_colon_first(text) ==
    IF text = <<>> \/ Head(text) = ":" THEN <<>>
    ELSE <<Head(text)>> \o split_colon_first(Tail(text))

\* ':' in text
has_colon(text) == \E i \in 1..Len(text) : text[i] = ":"

\* int(text): ValueError unless the text is a run of digits
int(text) ==
    IF text # <<>> /\ \A i \in 1..Len(text) : text[i] \in Digits
    THEN [raised |-> "none", value |-> Some(DigitsValue(text))]
    ELSE [raised |-> "ValueError", value |-> None]

\* f"{trip.id}: {trip.name} ({trip.destination})"
trip_entry(trip) ==
    str(trip.id[1]) \o <<":", " ", trip.name, " (", trip.destination, ")">>

\* variant of _update_all_comboboxes: the picker of the Export tab left
\* with the values it had
update_all_comboboxes_without_export(w) ==
    LET trip_names == [i \in 1..Len(w.current_trips) |->
                           trip_entry(w.current_trips[i])]
        all_values == <<all_trips_option>> \o trip_names
    IN [w EXCEPT !.trip_combobox = Combobox(all_values, all_values[1]),
                 !.analytics_trip_combobox = Combobox(all_values, all_values[1])]

\* TravelTrackerApp._update_all_comboboxes
update_all_comboboxes(w) ==
    LET trip_names == [i \in 1..Len(w.current_trips) |->
                           trip_entry(w.current_trips[i])]
        all_values == <<all_trips_option>> \o trip_names
    IN [w EXCEPT !.trip_combobox = Combobox(all_values, all_values[1]),
                 !.analytics_trip_combobox = Combobox(all_values, all_values[1]),
                 !.export_trip_combobox = Combobox(all_values, all_values[1])]

\* TravelTrackerApp._load_trips: the list emptied (its selection with it)
\* and filled with new objects, none of which current_trip refers to
load_trips(d, w) ==
    update_all_comboboxes([w EXCEPT !.trips_tree = None,
                                    !.current_trips = get_all_trips(d),
                                    !.current_trip_at = 0])

\* TravelTrackerApp._clear_trip_form
clear_trip_form(w) ==
    [w EXCEPT !.trips_tree = None, !.current_trip = None,
              !.current_trip_at = 0]

\* TravelTrackerApp._on_trip_select, the user having selected the row item
on_trip_select(d, w, item) ==
    LET found == {i \in 1..Len(w.current_trips) :
                      w.current_trips[i].id = Some(item)}
        first == CHOOSE i \in found : \A j \in found : i <= j
    IN Outcome(d,
               IF found = {} THEN [w EXCEPT !.trips_tree = Some(item)]
               ELSE [w EXCEPT !.trips_tree = Some(item),
                              !.current_trip = Some(w.current_trips[first]),
                              !.current_trip_at = first],
               "none", <<>>)

\* the Trip object _add_trip builds from the form
trip_of_form(form, budget) ==
    Trip(None, name_text(strip(form.name)),
         IF form.start_date.fields # <<>>
         THEN date_fromisoformat(form.start_date).value ELSE None,
         IF form.end_date.fields # <<>>
         THEN date_fromisoformat(form.end_date).value ELSE None,
         budget, 0, TripStatusOf(TripStatusValue["PLANNED"]))

\* variant of _add_trip: the two dates never passed to validate_date_range
add_trip_pressed_without_date_range(d, w, form) ==
    LET name == name_text(strip(form.name))
        amount == validate_currency_amount(form.budget)
        budget == IF form.budget # <<>> THEN amount[2] ELSE 0
        stored == add_trip(d, trip_of_form(form, budget))
    IN IF name = "" THEN Outcome(d, w, "warning", <<>>)
       ELSE IF form.budget # <<>> /\ ~amount[1]
       THEN Outcome(d, w, "warning", <<>>)
       ELSE IF \/ /\ form.start_date.fields # <<>>
                  /\ date_fromisoformat(form.start_date).raised # "none"
               \/ /\ form.end_date.fields # <<>>
                  /\ date_fromisoformat(form.end_date).raised # "none"
       THEN Outcome(d, w, "error", <<>>)
       ELSE IF stored.ret > 0
       THEN Outcome(stored.db, load_trips(stored.db, clear_trip_form(w)),
                    "info", <<"add_trip">>)
       ELSE Outcome(stored.db, w, "error", <<"add_trip">>)

\* TravelTrackerApp._add_trip
add_trip_pressed(d, w, form) ==
    LET name == name_text(strip(form.name))
        dates == validate_date_range(form.start_date.fields,
                                     form.end_date.fields, date_today)
        amount == validate_currency_amount(form.budget)
        budget == IF form.budget # <<>> THEN amount[2] ELSE 0
        stored == add_trip(d, trip_of_form(form, budget))
    IN IF name = "" THEN Outcome(d, w, "warning", <<>>)
       ELSE IF /\ form.start_date.fields # <<>>
               /\ form.end_date.fields # <<>>
               /\ ~dates[1]
       THEN Outcome(d, w, "warning", <<>>)
       ELSE IF form.budget # <<>> /\ ~amount[1]
       THEN Outcome(d, w, "warning", <<>>)
       ELSE IF \/ /\ form.start_date.fields # <<>>
                  /\ date_fromisoformat(form.start_date).raised # "none"
               \/ /\ form.end_date.fields # <<>>
                  /\ date_fromisoformat(form.end_date).raised # "none"
       THEN Outcome(d, w, "error", <<>>)
       ELSE IF stored.ret > 0
       THEN Outcome(stored.db, load_trips(stored.db, clear_trip_form(w)),
                    "info", <<"add_trip">>)
       ELSE Outcome(stored.db, w, "error", <<"add_trip">>)

\* an assignment to a field of the object current_trip refers to: seen
\* through current_trips too while the object is in that list
with_current_trip(w, trip) ==
    [w EXCEPT !.current_trip = Some(trip),
              !.current_trips = IF w.current_trip_at = 0 THEN @
                                ELSE [@ EXCEPT ![w.current_trip_at] = trip]]

\* TravelTrackerApp._update_trip
update_trip_pressed(d, w, form) ==
    LET named == [w.current_trip[1] EXCEPT
                      !.name = name_text(strip(form.name)),
                      !.destination = ""]
        start == date_fromisoformat(form.start_date)
        started_on == [named EXCEPT !.start_date =
                          IF form.start_date.fields # <<>> THEN start.value
                          ELSE None]
        end == date_fromisoformat(form.end_date)
        ended_on == [started_on EXCEPT !.end_date =
                        IF form.end_date.fields # <<>> THEN end.value
                        ELSE None]
        amount == validate_currency_amount(form.budget)
        updated == [ended_on EXCEPT
                       !.budget = IF form.budget # <<>> /\ amount[1]
                                  THEN amount[2] ELSE @,
                       !.currency = "USD",
                       !.status = TripStatusOf(TripStatusValue["PLANNED"]),
                       !.participants = "",
                       !.description = ""]
        saved == update_trip(d, updated)
    IN IF w.current_trip = None THEN Outcome(d, w, "warning", <<>>)
       ELSE IF form.start_date.fields # <<>> /\ start.raised # "none"
       THEN Outcome(d, with_current_trip(w, named), "error", <<>>)
       ELSE IF form.end_date.fields # <<>> /\ end.raised # "none"
       THEN Outcome(d, with_current_trip(w, started_on), "error", <<>>)
       ELSE IF saved.ret
       THEN Outcome(saved.db, load_trips(saved.db, with_current_trip(w, updated)),
                    "info", <<"update_trip">>)
       ELSE Outcome(saved.db, with_current_trip(w, updated), "error",
                    <<"update_trip">>)

\* TravelTrackerApp._delete_trip, the user answering the confirmation
delete_trip_pressed(d, w, confirmed) ==
    LET deleted == delete_trip(d, w.trips_tree[1])
    IN IF w.trips_tree = None THEN Outcome(d, w, "warning", <<>>)
       ELSE IF ~confirmed THEN Outcome(d, w, "none", <<>>)
       ELSE IF deleted.ret
       THEN Outcome(deleted.db, clear_trip_form(load_trips(deleted.db, w)),
                    "info", <<"delete_trip">>)
       ELSE Outcome(deleted.db, w, "error", <<"delete_trip">>)

\* TravelTrackerApp._load_expenses_for_trip
load_expenses_for_trip(d, w, trip_id) ==
    [w EXCEPT !.current_expenses = get_expenses_by_trip(d, trip_id)]

\* TravelTrackerApp._on_trip_combobox_select, the user having picked the
\* entry choice of the picker of the Expenses tab (int() raising leaves
\* the callback with a traceback)
on_trip_combobox_select(d, w, choice) ==
    LET picked == [w EXCEPT !.trip_combobox.text = choice]
        trip_id == int(split_colon_first(choice))
    IN IF choice # <<>> /\ has_colon(choice)
       THEN IF trip_id.raised # "none"
            THEN Outcome(d, picked, "traceback", <<>>)
            ELSE Outcome(d, load_expenses_for_trip(d, picked, trip_id.value[1]),
                         "none", <<"get_expenses_by_trip">>)
       ELSE Outcome(d, picked, "none", <<>>)

\* TravelTrackerApp._load_expenses
load_expenses(d, w) ==
    LET selected == w.trip_combobox.text
        trip_id == int(split_colon_first(selected))
    IN IF selected # <<>> /\ has_colon(selected) /\ trip_id.raised = "none"
       THEN load_expenses_for_trip(d, w, trip_id.value[1])
       ELSE w

\* variant of _add_expense: a picker text without a number taken as trip 0
add_expense_pressed_for_any_choice(d, w, form) ==
    LET selected == w.trip_combobox.text
        trip_id == int(split_colon_first(selected))
        amount == validate_currency_amount(form.amount)
        typed == date_fromisoformat(form.date)
        expense == Expense(None,
                           IF trip_id.raised # "none" THEN 0
                           ELSE trip_id.value[1],
                           amount[2],
                           ExpenseCategoryOf(ExpenseCategoryValue["FOOD"]),
                           IF form.date.fields # <<>> THEN typed.value
                           ELSE Some(date_today))
        stored == add_expense(d, expense.value[1])
    IN IF selected = <<>> THEN Outcome(d, w, "warning", <<>>)
       ELSE IF ~amount[1] THEN Outcome(d, w, "warning", <<>>)
       ELSE IF form.date.fields # <<>> /\ typed.raised # "none"
       THEN Outcome(d, w, "warning", <<>>)
       ELSE IF expense.raised # "none" THEN Outcome(d, w, "error", <<>>)
       ELSE IF stored.ret > 0
       THEN Outcome(stored.db, load_expenses(stored.db, w), "info",
                    <<"add_expense">>)
       ELSE Outcome(stored.db, w, "error", <<"add_expense">>)

\* TravelTrackerApp._add_expense
add_expense_pressed(d, w, form) ==
    LET selected == w.trip_combobox.text
        trip_id == int(split_colon_first(selected))
        amount == validate_currency_amount(form.amount)
        typed == date_fromisoformat(form.date)
        expense == Expense(None, trip_id.value[1], amount[2],
                           ExpenseCategoryOf(ExpenseCategoryValue["FOOD"]),
                           IF form.date.fields # <<>> THEN typed.value
                           ELSE Some(date_today))
        stored == add_expense(d, expense.value[1])
    IN IF selected = <<>> THEN Outcome(d, w, "warning", <<>>)
       ELSE IF trip_id.raised # "none" THEN Outcome(d, w, "error", <<>>)
       ELSE IF ~amount[1] THEN Outcome(d, w, "warning", <<>>)
       ELSE IF form.date.fields # <<>> /\ typed.raised # "none"
       THEN Outcome(d, w, "warning", <<>>)
       ELSE IF expense.raised # "none" THEN Outcome(d, w, "error", <<>>)
       ELSE IF stored.raised # "none" THEN Outcome(stored.db, w, "error",
                                                   <<"add_expense">>)
       ELSE IF stored.ret > 0
       THEN Outcome(stored.db, load_expenses(stored.db, w), "info",
                    <<"add_expense">>)
       ELSE Outcome(stored.db, w, "error", <<"add_expense">>)

\* TravelTrackerApp._delete_expense, selection being the id of the row
\* selected in the list of expenses (None: no row), the user answering
\* the confirmation
delete_expense_pressed(d, w, selection, confirmed) ==
    LET deleted == delete_expense(d, selection[1])
    IN IF selection = None THEN Outcome(d, w, "warning", <<>>)
       ELSE IF ~confirmed THEN Outcome(d, w, "none", <<>>)
       ELSE IF deleted.ret
       THEN Outcome(deleted.db, load_expenses(deleted.db, w), "info",
                    <<"delete_expense">>)
       ELSE Outcome(deleted.db, w, "error", <<"delete_expense">>)

\* the figures a run of plots leaves open: each plot gets its figure from
\* plt.subplots before it reads the data, and the first exception ends
\* the run
FiguresOpened(plots) ==
    LET raising == {i \in 1..Len(plots) : plots[i].raised # "none"}
    IN IF raising = {} THEN Len(plots)
       ELSE CHOOSE i \in raising : \A j \in raising : i <= j

\* TravelAnalyzer.plot_all_trips_analytics: the four plots in their order
plot_all_trips_analytics(analyzer) ==
    <<plot_all_trips_budget_comparison(analyzer),
      plot_all_trips_expenses_by_category(analyzer),
      plot_trips_by_status(analyzer),
      plot_monthly_expenses_trend(analyzer)>>

\* TravelTrackerApp._create_single_trip_analytics: the four plots of a trip
create_single_trip_analytics(w, analyzer, trip_id) ==
    [w EXCEPT !.figures = @ + FiguresOpened(
        <<plot_expense_categories(analyzer, trip_id),
          plot_daily_expenses(analyzer, trip_id),
          plot_budget_vs_actual(analyzer, trip_id),
          plot_expense_statistics(analyzer, trip_id)>>)]

\* TravelTrackerApp._create_all_trips_analytics
create_all_trips_analytics(w, analyzer) ==
    [w EXCEPT !.figures = @ + FiguresOpened(plot_all_trips_analytics(analyzer))]

\* TravelTrackerApp._analyze_single_trip
analyze_single_trip(d, w, trip_id) ==
    LET trips == get_all_trips(d)
        expenses == get_expenses_by_trip(d, trip_id)
    IN IF expenses = <<>> THEN w
       ELSE create_single_trip_analytics(w, TravelAnalyzer(trips, expenses),
                                         trip_id)

\* the expenses of the trips of a list, trip after trip
RECURSIVE ExpensesOfTrips(_, _)
ExpensesOfTrips(d, trips) ==
    IF trips = <<>> THEN <<>>
    ELSE get_expenses_by_trip(d, Head(trips).id[1])
            \o ExpensesOfTrips(d, Tail(trips))

\* TravelTrackerApp._analyze_all_trips
analyze_all_trips(d, w) ==
    LET trips == get_all_trips(d)
        all_expenses == ExpensesOfTrips(d, trips)
    IN IF all_expenses = <<>> THEN w
       ELSE create_all_trips_analytics(w, TravelAnalyzer(trips, all_expenses))

\* variant of _update_analytics: the figures of the last refresh left open
update_analytics_pressed_keeping_figures(d, w) ==
    LET selected == w.analytics_trip_combobox.text
        trip_id == int(split_colon_first(selected))
    IN IF selected = <<>> THEN Outcome(d, w, "warning", <<>>)
       ELSE IF selected = all_trips_option
       THEN Outcome(d, analyze_all_trips(d, w), "none", <<>>)
       ELSE IF trip_id.raised # "none" THEN Outcome(d, w, "error", <<>>)
       ELSE Outcome(d, analyze_single_trip(d, w, trip_id.value[1]), "none", <<>>)

\* TravelTrackerApp._update_analytics
update_analytics_pressed(d, w) ==
    LET selected == w.analytics_trip_combobox.text
        closed == [w EXCEPT !.figures = 0]
        trip_id == int(split_colon_first(selected))
    IN IF selected = <<>> THEN Outcome(d, w, "warning", <<>>)
       ELSE IF selected = all_trips_option
       THEN Outcome(d, analyze_all_trips(d, closed), "none", <<>>)
       ELSE IF trip_id.raised # "none" THEN Outcome(d, closed, "error", <<>>)
       ELSE Outcome(d, analyze_single_trip(d, closed, trip_id.value[1]),
                    "none", <<>>)

(***************************************************************************)
(* The constructors and helpers, each applied once to arbitrary arguments  *)
(***************************************************************************)
\* date texts a user types: calendar dates around the fixtures' (a leap
\* day included), impossible months and days, and texts lacking fields
DateTexts ==
    {<<y, m, d>> : y \in {2024, 2025}, m \in {2, 6, 13}, d \in {1, 10, 29, 30}}
        \cup {<<>>, <<2024, 6>>}

\* days on which the validation runs
Todays ==
    {D1, [year |-> 2024, month |-> 6, day |-> 5],
     [year |-> 2026, month |-> 11, day |-> 3]}

\* Expense(trip_id=, amount=, category=, date=)
NewExpense ==
    /\ fn = "none"
    /\ \E t \in 0..MaxTrips, a \in (0 - 2)..3, c \in ExpenseCategory,
           dt \in {None, Some(D1)} :
        /\ fn' = "Expense"
        /\ args' = [trip_id |-> t, amount |-> a, category |-> c, date |-> dt]
        /\ out' = Expense(None, t, a, c, dt)
        /\ UNCHANGED <<storageVars, apiVars, uiVars>>

ValidateDateRange ==
    /\ fn = "none"
    /\ \E s \in DateTexts, e \in DateTexts, today \in Todays :
        /\ fn' = "validate_date_range"
        /\ args' = [start_date_str |-> s, end_date_str |-> e, today |-> today]
        /\ out' = validate_date_range(s, e, today)
        /\ UNCHANGED <<storageVars, apiVars, uiVars>>

\* characters typed into an amount field: digits, both decimal marks,
\* blanks, a sign and a letter
AmountChars == {"0", "5", ".", ",", " ", "-", "a"}

\* amount texts of n characters
AmountTexts(n) == [1..n -> AmountChars]

ValidateCurrencyAmount ==
    /\ fn = "none"
    /\ \E n \in 0..MaxAmountLen : \E text \in AmountTexts(n) :
        /\ fn' = "validate_currency_amount"
        /\ args' = [amount_str |-> text]
        /\ out' = validate_currency_amount(text)
        /\ UNCHANGED <<storageVars, apiVars, uiVars>>

\* trip dates: the fixtures' and the days around the turn of a year and
\* of February in a leap and in a common year
TripDates ==
    {D1, D2,
     [year |-> 2023, month |-> 12, day |-> 31],
     [year |-> 2024, month |-> 1, day |-> 1],
     [year |-> 2024, month |-> 2, day |-> 28],
     [year |-> 2024, month |-> 3, day |-> 1],
     [year |-> 2025, month |-> 2, day |-> 28],
     [year |-> 2025, month |-> 3, day |-> 1]}

DurationDays ==
    /\ fn = "none"
    /\ \E s \in {None} \cup {Some(d) : d \in TripDates},
          e \in {None} \cup {Some(d) : d \in TripDates} :
        /\ fn' = "duration_days"
        /\ args' = [trip |-> Trip(None, "Paris", s, e, 1000, 0, "PLANNED")]
        /\ out' = duration_days(Trip(None, "Paris", s, e, 1000, 0, "PLANNED"))
        /\ UNCHANGED <<storageVars, apiVars, uiVars>>

NextPure == NewExpense \/ ValidateDateRange \/ ValidateCurrencyAmount \/ DurationDays

SpecPure == Init /\ [][NextPure]_vars

(***************************************************************************)
(* The analyzer built from arbitrary lists, one operation applied          *)
(***************************************************************************)
\* trip ids the engine's expenses and the queries name
EngineTripIds == {1, 2}

\* expenses handed to an analyzer: the test fixture's (Eda 100, Transport
\* 200, Eda 50) and two dated ones ten days apart, for either trip
EngineExpenses ==
    {Expense(None, t, x[1], x[2], x[3]).value[1] :
        t \in EngineTripIds,
        x \in {<<100, "FOOD", None>>, <<200, "TRANSPORT", None>>,
                <<50, "FOOD", None>>, <<50, "FOOD", Some(D1)>>,
                <<50, "TRANSPORT", Some(D2)>>}}

\* expense lists of n entries
EngineExpenseLists(n) == [1..n -> EngineExpenses]

\* trip lists handed to an analyzer, as get_all_trips returns them
EngineTripLists ==
    {<<>>,
     <<Trip(Some(1), "Paris", Some(D1), Some(D2), 1000, 0, "PLANNED")>>,
     <<Trip(Some(2), "Rome", None, None, 0, 150, "COMPLETED"),
       Trip(Some(1), "Paris", Some(D1), Some(D2), 1000, 0, "PLANNED")>>}

GetTripExpenseSummary ==
    /\ fn = "none"
    /\ \E n \in 0..MaxEngineExpenses : \E expenses \in EngineExpenseLists(n) :
       \E trips \in EngineTripLists, trip_id \in EngineTripIds :
        /\ fn' = "get_trip_expense_summary"
        /\ args' = [trips |-> trips, expenses |-> expenses, trip_id |-> trip_id]
        /\ out' = get_trip_expense_summary(TravelAnalyzer(trips, expenses), trip_id)
        /\ UNCHANGED <<storageVars, apiVars, uiVars>>

GetTripRecommendations ==
    /\ fn = "none"
    /\ \E n \in 0..MaxEngineExpenses : \E expenses \in EngineExpenseLists(n) :
       \E trips \in EngineTripLists, trip_id \in EngineTripIds :
        /\ fn' = "get_trip_recommendations"
        /\ args' = [trips |-> trips, expenses |-> expenses, trip_id |-> trip_id]
        /\ out' = get_trip_recommendations(TravelAnalyzer(trips, expenses), trip_id)
        /\ UNCHANGED <<storageVars, apiVars, uiVars>>

PlotExpenseCategories ==
    /\ fn = "none"
    /\ \E n \in 0..MaxEngineExpenses : \E expenses \in EngineExpenseLists(n) :
       \E trips \in EngineTripLists, trip_id \in EngineTripIds :
        /\ fn' = "plot_expense_categories"
        /\ args' = [trips |-> trips, expenses |-> expenses, trip_id |-> trip_id]
        /\ out' = plot_expense_categories(TravelAnalyzer(trips, expenses), trip_id)
        /\ UNCHANGED <<storageVars, apiVars, uiVars>>

PlotDailyExpenses ==
    /\ fn = "none"
    /\ \E n \in 0..MaxEngineExpenses : \E expenses \in EngineExpenseLists(n) :
       \E trips \in EngineTripLists, trip_id \in EngineTripIds :
        /\ fn' = "plot_daily_expenses"
        /\ args' = [trips |-> trips, expenses |-> expenses, trip_id |-> trip_id]
        /\ out' = plot_daily_expenses(TravelAnalyzer(trips, expenses), trip_id)
        /\ UNCHANGED <<storageVars, apiVars, uiVars>>

PlotBudgetVsActual ==
    /\ fn = "none"
    /\ \E n \in 0..MaxEngineExpenses : \E expenses \in EngineExpenseLists(n) :
       \E trips \in EngineTripLists, trip_id \in EngineTripIds :
        /\ fn' = "plot_budget_vs_actual"
        /\ args' = [trips |-> trips, expenses |-> expenses, trip_id |-> trip_id]
        /\ out' = plot_budget_vs_actual(TravelAnalyzer(trips, expenses), trip_id)
        /\ UNCHANGED <<storageVars, apiVars, uiVars>>

PlotExpenseStatistics ==
    /\ fn = "none"
    /\ \E n \in 0..MaxEngineExpenses : \E expenses \in EngineExpenseLists(n) :
       \E trips \in EngineTripLists, trip_id \in EngineTripIds :
        /\ fn' = "plot_expense_statistics"
        /\ args' = [trips |-> trips, expenses |-> expenses, trip_id |-> trip_id]
        /\ out' = plot_expense_statistics(TravelAnalyzer(trips, expenses), trip_id)
        /\ UNCHANGED <<storageVars, apiVars, uiVars>>

PlotAllTripsBudgetComparison ==
    /\ fn = "none"
    /\ \E n \in 0..MaxEngineExpenses : \E expenses \in EngineExpenseLists(n) :
       \E trips \in EngineTripLists :
        /\ fn' = "plot_all_trips_budget_comparison"
        /\ args' = [trips |-> trips, expenses |-> expenses]
        /\ out' = plot_all_trips_budget_comparison(TravelAnalyzer(trips, expenses))
        /\ UNCHANGED <<storageVars, apiVars, uiVars>>

PlotAllTripsExpensesByCategory ==
    /\ fn = "none"
    /\ \E n \in 0..MaxEngineExpenses : \E expenses \in EngineExpenseLists(n) :
       \E trips \in EngineTripLists :
        /\ fn' = "plot_all_trips_expenses_by_category"
        /\ args' = [trips |-> trips, expenses |-> expenses]
        /\ out' = plot_all_trips_expenses_by_category(TravelAnalyzer(trips, expenses))
        /\ UNCHANGED <<storageVars, apiVars, uiVars>>

PlotTripsByStatus ==
    /\ fn = "none"
    /\ \E n \in 0..MaxEngineExpenses : \E expenses \in EngineExpenseLists(n) :
       \E trips \in EngineTripLists :
        /\ fn' = "plot_trips_by_status"
        /\ args' = [trips |-> trips, expenses |-> expenses]
        /\ out' = plot_trips_by_status(TravelAnalyzer(trips, expenses))
        /\ UNCHANGED <<storageVars, apiVars, uiVars>>

PlotMonthlyExpensesTrend ==
    /\ fn = "none"
    /\ \E n \in 0..MaxEngineExpenses : \E expenses \in EngineExpenseLists(n) :
       \E trips \in EngineTripLists :
        /\ fn' = "plot_monthly_expenses_trend"
        /\ args' = [trips |-> trips, expenses |-> expenses]
        /\ out' = plot_monthly_expenses_trend(TravelAnalyzer(trips, expenses))
        /\ UNCHANGED <<storageVars, apiVars, uiVars>>

\* the file names handed to an export
OutputFiles == {"all_trips_summary.csv", "export.csv"}

ExportAllTripsToCsv ==
    /\ fn = "none"
    /\ \E n \in 0..MaxEngineExpenses : \E expenses \in EngineExpenseLists(n) :
       \E trips \in EngineTripLists, output_file \in OutputFiles :
        /\ fn' = "export_all_trips_to_csv"
        /\ args' = [trips |-> trips, expenses |-> expenses,
                    output_file |-> output_file]
        /\ out' = export_all_trips_to_csv(TravelAnalyzer(trips, expenses), output_file)
        /\ UNCHANGED <<storageVars, apiVars, uiVars>>

NextAnalysis ==
    \/ GetTripExpenseSummary
    \/ GetTripRecommendations
    \/ PlotExpenseCategories
    \/ PlotDailyExpenses
    \/ PlotBudgetVsActual
    \/ PlotExpenseStatistics
    \/ PlotAllTripsBudgetComparison
    \/ PlotAllTripsExpensesByCategory
    \/ PlotTripsByStatus
    \/ PlotMonthlyExpensesTrend
    \/ ExportAllTripsToCsv

SpecAnalysis == Init /\ [][NextAnalysis]_vars

(***************************************************************************)
(* The API client driven by an arbitrary caller and an arbitrary endpoint  *)
(***************************************************************************)
\* what the endpoint may do with a request
Responses ==
    <<TransportError,
      Response(404, Some(EmptyDict)),
      Response(500, None),
      Response(HTTP_OK, None),
      Response(HTTP_OK, Some(EmptyDict)),
      Response(HTTP_OK, Some([rates |-> EmptyDict])),
      Response(HTTP_OK, Some([rates |-> [EUR |-> JsonNumber(92)]])),
      Response(HTTP_OK, Some([rates |-> [EUR |-> JsonNumber(92),
                                         GBP |-> JsonNumber(79)]])),
      Response(HTTP_OK, Some([rates |-> [EUR |-> JsonNull]])),
      Response(HTTP_OK, Some([data |-> EmptyDict])),
      Response(HTTP_OK, Some([data |-> [FR |-> [score |-> JsonNumber(3)]]]))>>

\* arguments a caller passes
Currencies == {"EUR", "GBP"}

CountryCodes == {"fr", "FR", "de"}

\* an operation of the client has run: its name, what it was called with
\* and how it ended
ApiCalled(name, arguments, outcome) ==
    /\ fn' = name
    /\ args' = arguments
    /\ out' = outcome
    /\ UNCHANGED <<storageVars, uiVars>>

CreateSession ==
    /\ client.session = None => Len(sessions) < MaxSessions
    /\ client' = create_session(client, sessions).self
    /\ sessions' = create_session(client, sessions).sessions
    /\ ApiCalled("create_session", [self |-> client], Returned(None))
    /\ UNCHANGED <<sync, scopes>>

CloseSession ==
    /\ client' = close_session(client, sessions).self
    /\ sessions' = close_session(client, sessions).sessions
    /\ ApiCalled("close_session", [self |-> client], Returned(None))
    /\ UNCHANGED <<sync, scopes>>

\* TravelAPIClient.__aenter__: an `async with client` block is entered
\* (scopes counts the blocks entered and not yet left)
AEnter ==
    /\ scopes < MaxScopes
    /\ client.session = None => Len(sessions) < MaxSessions
    /\ client' = create_session(client, sessions).self
    /\ sessions' = create_session(client, sessions).sessions
    /\ scopes' = scopes + 1
    /\ ApiCalled("__aenter__", [self |-> client], Returned(None))
    /\ UNCHANGED sync

\* TravelAPIClient.__aexit__: an `async with client` block is left
AExit ==
    /\ scopes > 0
    /\ client' = close_session(client, sessions).self
    /\ sessions' = close_session(client, sessions).sessions
    /\ scopes' = scopes - 1
    /\ ApiCalled("__aexit__", [self |-> client], Returned(None))
    /\ UNCHANGED sync

GetExchangeRates ==
    \E r \in 1..Len(Responses) :
        /\ ApiCalled("get_exchange_rates",
                     [self |-> client, base_currency |-> "USD",
                      response |-> Responses[r]],
                     get_exchange_rates(client, "USD", Responses[r]))
        /\ UNCHANGED apiVars

ConvertCurrency ==
    \E r \in 1..Len(Responses), to_currency \in Currencies :
        /\ ApiCalled("convert_currency",
                     [self |-> client, amount |-> 100, from_currency |-> "USD",
                      to_currency |-> to_currency, response |-> Responses[r]],
                     convert_currency(client, 100, "USD", to_currency, Responses[r]))
        /\ UNCHANGED apiVars

GetWeatherForecast ==
    \E r \in 1..Len(Responses) :
        /\ ApiCalled("get_weather_forecast",
                     [self |-> client, city |-> "Paris", days |-> 3,
                      response |-> Responses[r]],
                     get_weather_forecast(client, "Paris", 3, Responses[r]))
        /\ UNCHANGED apiVars

GetTravelAdvisory ==
    \E r \in 1..Len(Responses), country_code \in CountryCodes :
        /\ ApiCalled("get_travel_advisory",
                     [self |-> client, country_code |-> country_code,
                      response |-> Responses[r]],
                     get_travel_advisory(client, country_code, Responses[r]))
        /\ UNCHANGED apiVars

SyncGetExchangeRates ==
    \E r \in 1..Len(Responses) :
        /\ ApiCalled("sync_get_exchange_rates",
                     [self |-> sync.client, base_currency |-> "USD",
                      response |-> Responses[r]],
                     sync_get_exchange_rates(sync, "USD", Responses[r]))
        /\ UNCHANGED apiVars

SyncConvertCurrency ==
    \E r \in 1..Len(Responses), to_currency \in Currencies :
        /\ ApiCalled("sync_convert_currency",
                     [self |-> sync.client, amount |-> 100, from_currency |-> "USD",
                      to_currency |-> to_currency, response |-> Responses[r]],
                     sync_convert_currency(sync, 100, "USD", to_currency,
                                           Responses[r]))
        /\ UNCHANGED apiVars

NextApi ==
    \/ CreateSession
    \/ CloseSession
    \/ AEnter
    \/ AExit
    \/ GetExchangeRates
    \/ ConvertCurrency
    \/ GetWeatherForecast
    \/ GetTravelAdvisory
    \/ SyncGetExchangeRates
    \/ SyncConvertCurrency

SpecApi == Init /\ [][NextApi]_vars

(***************************************************************************)
(* The window driven by a user                                             *)
(***************************************************************************)
\* the fields of the window as the variables hold them
window ==
    [current_trips |-> current_trips, current_trip |-> current_trip,
     current_trip_at |-> current_trip_at, trips_tree |-> trips_tree,
     current_expenses |-> current_expenses, trip_combobox |-> trip_combobox,
     analytics_trip_combobox |-> analytics_trip_combobox,
     export_trip_combobox |-> export_trip_combobox, figures |-> figures]

\* one handler run to its end: the database and the window are those it
\* leaves; started keeps the database and the window it started from
Handled(name, input, o) ==
    /\ nops < MaxUiOps
    /\ nops' = nops + 1
    /\ handler' = [name |-> name, input |-> input, dialog |-> o.dialog,
                   calls |-> o.calls]
    /\ started' = [db |-> db, window |-> window]
    /\ db' = o.db
    /\ current_trips' = o.window.current_trips
    /\ current_trip' = o.window.current_trip
    /\ current_trip_at' = o.window.current_trip_at
    /\ trips_tree' = o.window.trips_tree
    /\ current_expenses' = o.window.current_expenses
    /\ trip_combobox' = o.window.trip_combobox
    /\ analytics_trip_combobox' = o.window.analytics_trip_combobox
    /\ export_trip_combobox' = o.window.export_trip_combobox
    /\ figures' = o.window.figures
    /\ UNCHANGED <<pre, call, ret, raised, ncalls, issued, pureVars, apiVars>>

\* the trip form as the user fills it
TripForm(name, start_date, end_date, budget) ==
    [name |-> name, start_date |-> start_date, end_date |-> end_date,
     budget |-> budget]

NoDate == DateText(<<>>, TRUE)

\* trip forms typed: two that pass every validation (one complete, one
\* with a name between blanks alone), a blank name, an end before the
\* start, a letter for the budget, a thirteenth month as the only date,
\* and a start whose month and day have one digit
TripForms ==
    {TripForm(<<"Paris">>, DateText(<<2024, 6, 1>>, TRUE),
              DateText(<<2024, 6, 10>>, TRUE), <<"5", "0">>),
     TripForm(<<" ", "Rome", " ">>, NoDate, NoDate, <<>>),
     TripForm(<<" ">>, NoDate, NoDate, <<>>),
     TripForm(<<"Paris">>, DateText(<<2024, 6, 1>>, TRUE),
              DateText(<<2024, 5, 1>>, TRUE), <<>>),
     TripForm(<<"Paris">>, NoDate, NoDate, <<"a">>),
     TripForm(<<"Rome">>, DateText(<<2024, 13, 1>>, TRUE), NoDate, <<>>),
     TripForm(<<"Rome">>, DateText(<<2024, 6, 1>>, FALSE),
              DateText(<<2024, 6, 10>>, TRUE), <<>>)}

\* expense forms typed: an amount without and with a date, zero, a
\* letter, and a date whose month has one digit
ExpenseForms ==
    {[amount |-> <<"5">>, date |-> NoDate],
     [amount |-> <<"7">>, date |-> DateText(<<2024, 6, 10>>, TRUE)],
     [amount |-> <<"0">>, date |-> NoDate],
     [amount |-> <<"a">>, date |-> NoDate],
     [amount |-> <<"5">>, date |-> DateText(<<2024, 6, 10>>, FALSE)]}

\* the entries a picker offers
Offered(combobox) == {combobox.values[i] : i \in 1..Len(combobox.values)}

\* the ids of the rows of the list of trips
TripRowsShown == {current_trips[i].id[1] : i \in 1..Len(current_trips)}

AddTripPressed ==
    \E form \in TripForms :
        LET o == add_trip_pressed(db, window, form)
        IN /\ o.calls # <<>> => db.sqlite_sequence.trips < MaxTrips
           /\ Handled("_add_trip", form, o)

TripSelected ==
    \E item \in TripRowsShown :
        Handled("_on_trip_select", item, on_trip_select(db, window, item))

UpdateTripPressed ==
    \E form \in TripForms :
        Handled("_update_trip", form, update_trip_pressed(db, window, form))

DeleteTripPressed ==
    \E confirmed \in BOOLEAN :
        Handled("_delete_trip", confirmed,
                delete_trip_pressed(db, window, confirmed))

\* the Refresh button of the Trips tab
LoadTripsPressed ==
    Handled("_load_trips", <<>>, Outcome(db, load_trips(db, window), "none", <<>>))

ClearTripFormPressed ==
    Handled("_clear_trip_form", <<>>,
            Outcome(db, clear_trip_form(window), "none", <<>>))

ExpensesTripChosen ==
    \E choice \in Offered(trip_combobox) :
        Handled("_on_trip_combobox_select", choice,
                on_trip_combobox_select(db, window, choice))

AddExpensePressed ==
    \E form \in ExpenseForms :
        LET o == add_expense_pressed(db, window, form)
        IN /\ o.calls # <<>> => db.sqlite_sequence.expenses < MaxExpenses
           /\ Handled("_add_expense", form, o)

DeleteExpensePressed ==
    \E row \in 0..Len(current_expenses), confirmed \in BOOLEAN :
        LET selection == IF row = 0 THEN None ELSE current_expenses[row].id
        IN Handled("_delete_expense", [selection |-> selection,
                                       confirmed |-> confirmed],
                   delete_expense_pressed(db, window, selection, confirmed))

\* the user picking an entry of the picker of the Analytics tab
AnalyticsTripChosen ==
    \E choice \in Offered(analytics_trip_combobox) :
        Handled("analytics_trip_combobox", choice,
                Outcome(db, [window EXCEPT !.analytics_trip_combobox.text = choice],
                        "none", <<>>))

UpdateAnalyticsPressed ==
    Handled("_update_analytics", <<>>, update_analytics_pressed(db, window))

\* _clear_analytics: plt.close('all')
ClearAnalyticsPressed ==
    Handled("_clear_analytics", <<>>,
            Outcome(db, [window EXCEPT !.figures = 0], "none", <<>>))

NextUi ==
    \/ AddTripPressed
    \/ TripSelected
    \/ UpdateTripPressed
    \/ DeleteTripPressed
    \/ LoadTripsPressed
    \/ ClearTripFormPressed
    \/ ExpensesTripChosen
    \/ AddExpensePressed
    \/ DeleteExpensePressed
    \/ AnalyticsTripChosen
    \/ UpdateAnalyticsPressed
    \/ ClearAnalyticsPressed

SpecUi == Init /\ [][NextUi]_vars

(***************************************************************************)
(* Properties of the storage layer (checked under Spec)                    *)
(***************************************************************************)
\* C1: after delete_trip(t) has returned True, no stored expense has
\* trip_id = t and get_expenses_by_trip(t) is the empty list.
C1_CascadeDelete ==
    (call.op = "delete_trip" /\ ret = TRUE) =>
        /\ get_expenses_by_trip(db, call.id) = <<>>
        /\ \A e \in db.expenses : e.trip_id # call.id

\* C2: in every reachable state each stored trip's actual_spent is the sum
\* of the amounts of the stored expenses of that trip.
C2_ActualSpentIsSum ==
    \A t \in db.trips :
        t.actual_spent = SumAmount({e \in db.expenses : e.trip_id = t.id})

\* C3: right after add_expense(e) for a stored trip e.trip_id, the expense
\* is stored, that trip's actual_spent is the sum of the amounts of all its
\* stored expenses, whatever it was before, and every other trip row is as
\* it was.
C3_AddExpenseRecomputes ==
    (call.op = "add_expense"
        /\ \E t \in pre.trips : t.id = call.expense[1].trip_id) =>
        LET e == call.expense[1]
            mine == {x \in db.expenses : x.trip_id = e.trip_id}
        IN /\ \E x \in mine : x.id = ret /\ x.amount = e.amount
                                /\ x \notin pre.expenses
           /\ \E t \in db.trips : t.id = e.trip_id
           /\ \A t \in db.trips :
                t.id = e.trip_id => t.actual_spent = SumAmount(mine)
           /\ {t \in db.trips : t.id # e.trip_id}
                = {t \in pre.trips : t.id # e.trip_id}
           /\ {t.id : t \in db.trips} = {t.id : t \in pre.trips}

\* C3 witness: an expense added to a trip that already has one and whose
\* actual_spent was not the sum before the call, beside another trip.
C3_Witness ==
    /\ call.op = "add_expense"
    /\ \E t \in pre.trips, u \in db.trips :
        /\ t.id = call.expense[1].trip_id
        /\ u.id # t.id
        /\ t.actual_spent # SumAmount({x \in pre.expenses : x.trip_id = t.id})
        /\ Cardinality({x \in db.expenses : x.trip_id = t.id}) = 2
        /\ \E v \in db.trips : v.id = t.id /\ v.actual_spent > call.expense[1].amount

\* C4: delete_expense(id) removes the expense row with that id and no
\* other, leaves the trips table (actual_spent included) as it was, and
\* returns True exactly when a row was removed.
C4_DeleteExpenseFrame ==
    call.op = "delete_expense" =>
        /\ db.trips = pre.trips
        /\ db.expenses \subseteq pre.expenses
        /\ \A x \in pre.expenses : x \in db.expenses <=> x.id # call.id
        /\ Cardinality(pre.expenses \ db.expenses) <= 1
        /\ db.sqlite_sequence = pre.sqlite_sequence
        /\ ret = (db.expenses # pre.expenses)

\* C4 witness: an expense of a stored trip was deleted and the trip keeps
\* the actual_spent that counted it.
C4_Witness ==
    /\ call.op = "delete_expense"
    /\ ret = TRUE
    /\ \E x \in pre.expenses \ db.expenses, t \in db.trips :
        /\ t.id = x.trip_id
        /\ t.actual_spent = SumAmount({y \in pre.expenses : y.trip_id = t.id})
        /\ t.actual_spent # SumAmount({y \in db.expenses : y.trip_id = t.id})

\* C5: in every reachable state each stored expense's trip_id is the id of
\* a stored trip.
C5_ReferentialIntegrity ==
    \A e \in db.expenses : \E t \in db.trips : t.id = e.trip_id

\* C6: add_trip(t) returns an id > 0 and get_all_trips then lists one more
\* trip, exactly one of them with that id and with t's fields; add_expense(e)
\* returns an id > 0 and get_expenses_by_trip(e.trip_id) then lists one more
\* expense, exactly one of them with that id and with e's amount and fields.
C6_StorageRoundTrip ==
    /\ call.op = "add_trip" =>
        LET before == get_all_trips(pre)
            after == get_all_trips(db)
            hits == {i \in 1..Len(after) : after[i].id = Some(ret)}
        IN /\ ret > 0
           /\ Len(after) = Len(before) + 1
           /\ Cardinality(hits) = 1
           /\ \A i \in hits : after[i] = [call.trip[1] EXCEPT !.id = Some(ret)]
    /\ call.op = "add_expense" =>
        LET e == call.expense[1]
            before == get_expenses_by_trip(pre, e.trip_id)
            after == get_expenses_by_trip(db, e.trip_id)
            hits == {i \in 1..Len(after) : after[i].id = Some(ret)}
        IN /\ ret > 0
           /\ Len(after) = Len(before) + 1
           /\ Cardinality(hits) = 1
           /\ \A i \in hits : /\ after[i].amount = e.amount
                              /\ after[i] = [e EXCEPT !.id = Some(ret)]

\* C6 witness: a dated expense added to a stored, dated trip that already
\* had an expense.
C6_Witness ==
    /\ call.op = "add_expense"
    /\ call.expense[1].date # None
    /\ Len(get_expenses_by_trip(pre, call.expense[1].trip_id)) >= 1
    /\ \E i \in 1..Len(get_all_trips(db)) :
        /\ get_all_trips(db)[i].id = Some(call.expense[1].trip_id)
        /\ get_all_trips(db)[i].start_date # None

\* C7: delete_trip, delete_expense and update_trip with an id of no stored
\* row return False, raise nothing and leave the database as it was; with
\* the id of a stored row they return True; after a delete no row has the
\* id, so that deleting it again returns False.
C7_MissingIdReturnsFalse ==
    /\ call.op = "delete_trip" =>
        LET hit == \E t \in pre.trips : t.id = call.id
        IN /\ ret = hit
           /\ raised = "none"
           /\ ~hit => db = pre
           /\ \A t \in db.trips : t.id # call.id
    /\ call.op = "delete_expense" =>
        LET hit == \E x \in pre.expenses : x.id = call.id
        IN /\ ret = hit
           /\ raised = "none"
           /\ ~hit => db = pre
           /\ \A x \in db.expenses : x.id # call.id
    /\ call.op = "update_trip" =>
        LET hit == /\ call.trip[1].id # None
                   /\ \E t \in pre.trips : t.id = call.trip[1].id[1]
        IN /\ ret = hit
           /\ raised = "none"
           /\ ~hit => db = pre

\* C7 witness: delete_trip of an id that was handed out and is stored no
\* more (a repeated delete) returned False while other rows are stored.
C7_Witness ==
    /\ call.op = "delete_trip"
    /\ ret = FALSE
    /\ call.id <= db.sqlite_sequence.trips
    /\ db.trips # {}
    /\ db.expenses # {}

(***************************************************************************)
(* Properties of the constructors and helpers (checked under SpecPure)     *)
(***************************************************************************)
\* C8: Expense(...) raises ValueError for every amount <= 0, 0 included,
\* and yields the object for every amount > 0.
C8_ExpenseAmountValidation ==
    fn = "Expense" =>
        /\ args.amount <= 0 => out.raised = "ValueError" /\ out.value = None
        /\ args.amount > 0 =>
            /\ out.raised = "none"
            /\ out.value # None
            /\ out.value[1].amount = args.amount

\* C8 witness: construction with amount exactly 0 raised ValueError.
C8_Witness ==
    /\ fn = "Expense"
    /\ args.amount = 0
    /\ out.raised = "ValueError"

\* C9: validate_date_range returns (True, "") for every pair of calendar
\* dates with start <= end, on whatever day it is called.
C9_ValidRangeAlwaysAccepted ==
    (/\ fn = "validate_date_range"
     /\ strptime_date(args.start_date_str).raised = "none"
     /\ strptime_date(args.end_date_str).raised = "none"
     /\ ~DateLess(strptime_date(args.end_date_str).value[1],
                  strptime_date(args.start_date_str).value[1])) =>
        out = <<TRUE, "">>

C11_CurrencyAmountValidation ==
    fn = "validate_currency_amount" =>
        LET t == args.amount_str
            blanks(i, j) == \A k \in i..j : t[k] = " "
            ch(k) == IF t[k] = "," THEN "." ELSE t[k]
            digits(i, j) == \A k \in i..j : ch(k) \in Digits
            num(i, j) == IF j < i THEN 0 ELSE
                LET pow[e \in 0..MaxAmountLen] == IF e = 0 THEN 1 ELSE 10 * pow[e - 1]
                    part[k \in (i - 1)..j] ==
                        IF k < i THEN 0
                        ELSE part[k - 1] + DigitValue(ch(k)) * pow[j - k]
                IN part[j]
            \* the text is blanks, digits i..j, optionally a mark at j+1 and
            \* digits up to m, blanks: its value in hundredths, else no value
            values ==
                {num(i, j) * 100 +
                    (IF m = j THEN 0
                     ELSE IF m = j + 2 THEN num(m, m) * 10 ELSE num(j + 2, m)) :
                 <<i, j, m>> \in
                    {x \in (1..Len(t)) \X (1..Len(t)) \X (1..Len(t)) :
                        /\ x[1] <= x[2] /\ x[2] <= x[3]
                        /\ blanks(1, x[1] - 1) /\ blanks(x[3] + 1, Len(t))
                        /\ digits(x[1], x[2])
                        /\ \/ x[3] = x[2]
                           \/ /\ x[3] \in {x[2] + 2, x[2] + 3}
                              /\ ch(x[2] + 1) = "."
                              /\ digits(x[2] + 2, x[3])}}
        IN IF \E v \in values : v > 0
           THEN \E v \in values : out = <<TRUE, v, "">>
           ELSE out[1] = FALSE /\ out[2] = 0 /\ out[3] # ""

\* C11 witness: a text with blanks around it and a comma as its decimal
\* mark was accepted with a value that has a fraction.
C11_Witness ==
    /\ fn = "validate_currency_amount"
    /\ out[1] = TRUE
    /\ out[2] % 100 # 0
    /\ \E k \in 1..Len(args.amount_str) : args.amount_str[k] = ","
    /\ Head(args.amount_str) = " "

\* C12: Trip.duration_days is (end_date - start_date).days + 1 when both
\* dates are present, and 0 when either is absent.  The difference in days
\* is counted on the calendar: from a start to a later end it is the number
\* of calendar days after the start up to the end.
C12_DurationDays ==
    fn = "duration_days" =>
        LET s == args.trip.start_date
            e == args.trip.end_date
            Key(d) == d.year * 10000 + d.month * 100 + d.day
            Calendar ==
                {d \in [year : 2023..2025, month : 1..12, day : 1..31] :
                    /\ d.month \in {4, 6, 9, 11} => d.day <= 30
                    /\ d.month = 2 => d.day <= (IF d.year = 2024 THEN 29 ELSE 28)}
            After(a, b) ==
                Cardinality({d \in Calendar : Key(a) < Key(d) /\ Key(d) <= Key(b)})
        IN IF s = None \/ e = None THEN out = 0
           ELSE IF Key(s[1]) <= Key(e[1])
                THEN out = After(s[1], e[1]) + 1
                ELSE out = 1 - After(e[1], s[1])

\* C12 witness: a trip over the leap day of 2024 lasts 3 days.
C12_Witness ==
    /\ fn = "duration_days"
    /\ args.trip.start_date = Some([year |-> 2024, month |-> 2, day |-> 28])
    /\ args.trip.end_date = Some([year |-> 2024, month |-> 3, day |-> 1])
    /\ out = 3

\* C29: trip ids are never reused: each id add_trip returns is strictly
\* greater than every id it returned before, also after trips were deleted,
\* so no expense left with the id of a deleted trip is returned by
\* get_expenses_by_trip for a trip added later.
C29_TripIdsNeverReused ==
    /\ \A i, j \in 1..Len(issued) : i < j => issued[i] < issued[j]
    /\ call.op = "add_trip" =>
        LET before == {issued[i] : i \in 1..(Len(issued) - 1)}
            left == {e.id : e \in {x \in pre.expenses : x.trip_id \in before}}
            got == get_expenses_by_trip(db, ret)
        IN \A k \in 1..Len(got) : got[k].id[1] \notin left

\* a trip added after the trip holding id 1 was deleted and left an expense
C29_Witness ==
    /\ call.op = "add_trip"
    /\ issued = <<1, 2>>
    /\ \A t \in pre.trips : t.id # 1
    /\ \E e \in db.expenses : e.trip_id = 1
    /\ get_expenses_by_trip(db, ret) = <<>>

(***************************************************************************)
(* Properties of the analyzer (checked under SpecAnalysis)                 *)
(***************************************************************************)
\* C13: get_trip_expense_summary for a trip without expenses returns the
\* zeroed summary (total 0, empty by_category, daily_avg 0, max_expense 0,
\* expense_count 0), whether or not the analyzer holds other expenses.
C13_ZeroExpensesZeroSummary ==
    (/\ fn = "get_trip_expense_summary"
     /\ \A i \in 1..Len(args.expenses) : args.expenses[i].trip_id # args.trip_id) =>
        /\ DOMAIN out =
            {"total", "by_category", "daily_avg", "max_expense", "expense_count"}
        /\ out.total = 0
        /\ DOMAIN out.by_category = {}
        /\ out.daily_avg.num = 0
        /\ out.max_expense = 0
        /\ out.expense_count = 0


C15_RecommendationsBounded ==
    fn = "get_trip_recommendations" =>
        /\ Len(out) >= 1
        /\ Len(out) <= 5
        /\ (\A i \in 1..Len(args.expenses) :
                args.expenses[i].trip_id # args.trip_id) =>
            /\ Len(out) = 1
            /\ out[1].kind = "no_data"

\* recommendations asked for a trip without expenses while another trip has some
C15_Witness ==
    /\ fn = "get_trip_recommendations"
    /\ args.expenses # <<>>
    /\ \A i \in 1..Len(args.expenses) : args.expenses[i].trip_id # args.trip_id
    /\ out = <<[kind |-> "no_data", category |-> ""]>>

\* C16: for a trip with expenses the recommendations are, in this order: one
\* warning per category whose share of the total is strictly above 50%; then
\* 'spending is high' if the daily average is above 200, else 'great savings'
\* if it is below 50; and 'well balanced' exactly when nothing else was
\* emitted.
C16_RecommendationOrder ==
    (/\ fn = "get_trip_recommendations"
     /\ \E i \in 1..Len(args.expenses) : args.expenses[i].trip_id = args.trip_id) =>
        LET es == args.expenses
            n == Len(es)
            own == {k \in 1..n : es[k].trip_id = args.trip_id}
            Total[k \in 0..n] ==
                IF k = 0 THEN 0
                ELSE Total[k - 1] + (IF k \in own THEN es[k].amount ELSE 0)
            Of[c \in ExpenseCategory] ==
                [k \in 0..n |->
                    IF k = 0 THEN 0
                    ELSE Of[c][k - 1]
                         + (IF k \in own /\ es[k].category = c
                            THEN es[k].amount ELSE 0)]
            total == Total[n]
            dated == {k \in own : es[k].date # None}
            span == IF Cardinality(dated) > 1
                    THEN (CHOOSE d \in {DaysBetween(es[a].date[1], es[b].date[1]) :
                                            a, b \in dated} :
                            \A a, b \in dated :
                                DaysBetween(es[a].date[1], es[b].date[1]) <= d) + 1
                    ELSE 1
            over == {c \in ExpenseCategory : 2 * Of[c][n] > total}
            high == total > 200 * span
            savings == ~high /\ total < 50 * span
            balanced == over = {} /\ ~high /\ ~savings
            kinds(s) == {i \in 1..Len(out) : out[i].kind \in s}
        IN /\ kinds({"category"}) = 1..Cardinality(over)
           /\ {out[i].category : i \in kinds({"category"})}
                = {ExpenseCategoryValue[c] : c \in over}
           /\ Cardinality(kinds({"high"})) = IF high THEN 1 ELSE 0
           /\ Cardinality(kinds({"savings"})) = IF savings THEN 1 ELSE 0
           /\ Cardinality(kinds({"balanced"})) = IF balanced THEN 1 ELSE 0
           /\ kinds({"category", "high", "savings", "balanced"}) = 1..Len(out)

\* a category warning followed by the 'spending is high' warning
C16_Witness ==
    /\ fn = "get_trip_recommendations"
    /\ Len(out) = 2
    /\ out[1] = [kind |-> "category", category |-> "Transport"]
    /\ out[2].kind = "high"


\* C17: every chart operation (category pie, daily line, budget-vs-actual,
\* statistics panel and the four all-trips charts) returns a figure and does
\* not raise when the analyzer was built from an empty expense list and/or an
\* empty trip list, and the figure carries a placeholder text when the list
\* the chart draws from is the empty one.
C17_ChartsOnEmptyInput ==
    LET fromExpenses == {"plot_expense_categories", "plot_daily_expenses",
                         "plot_expense_statistics",
                         "plot_all_trips_expenses_by_category",
                         "plot_monthly_expenses_trend"}
        fromTrips == {"plot_budget_vs_actual", "plot_all_trips_budget_comparison",
                      "plot_trips_by_status"}
    IN (/\ fn \in fromExpenses \cup fromTrips
        /\ args.expenses = <<>> \/ args.trips = <<>>) =>
            /\ out.raised = "none"
            /\ out.value # None
            /\ (\/ fn \in fromExpenses /\ args.expenses = <<>>
                \/ fn \in fromTrips /\ args.trips = <<>>) =>
                    out.value[1].placeholder # ""


\* C18: export_all_trips_to_csv returns the output path and writes exactly
\* one row per trip with 7 category columns, each holding the trip's total in
\* that category or 0, for every input, an empty expense list included.
C18_ExportOneRowPerTrip ==
    fn = "export_all_trips_to_csv" =>
        LET es == args.expenses
            n == Len(es)
            TotalOf(t, c) ==
                LET S[k \in 0..n] ==
                        IF k = 0 THEN 0
                        ELSE S[k - 1] + (IF es[k].trip_id = t /\ es[k].category = c
                                         THEN es[k].amount ELSE 0)
                IN S[n]
        IN /\ out.ret = args.output_file
           /\ out.file # None
           /\ Len(out.file[1]) = Len(args.trips)
           /\ \A i \in 1..Len(args.trips) :
                LET row == out.file[1][i]
                IN /\ row.id = args.trips[i].id
                   /\ Cardinality({CategoryColumn[c] : c \in ExpenseCategory}
                                    \cap DOMAIN row) = 7
                   /\ \A c \in ExpenseCategory :
                        row[CategoryColumn[c]] = TotalOf(args.trips[i].id[1], c)

(***************************************************************************)
(* Properties of the API client (checked under SpecApi)                    *)
(***************************************************************************)
\* C19: no operation of the API client (get_exchange_rates,
\* convert_currency, get_weather_forecast, get_travel_advisory and the two
\* synchronous wrappers) raises to its caller, and a non-200 status, a
\* transport error, a missing target currency, the missing API key and a call
\* made while no session is open each give an absent result.
C19_NoOperationRaises ==
    LET converting == {"convert_currency", "sync_convert_currency"}
        operations == {"get_exchange_rates", "get_weather_forecast",
                       "get_travel_advisory", "sync_get_exchange_rates"}
                        \cup converting
        body == args.response.body
        targetMissing ==
            \/ body = None
            \/ "rates" \notin DOMAIN body[1]
            \/ args.to_currency \notin DOMAIN body[1].rates
    IN fn \in operations =>
        /\ out.raised = "none"
        /\ (\/ args.response.kind = "error"
            \/ args.response.status # 200
            \/ fn \in converting /\ targetMissing
            \/ fn = "get_weather_forecast"
            \/ args.self.session = None) => out.value = None

\* C20: a request made on a client whose session was never created opens the
\* session and performs the request, so SyncTravelAPIClient.get_exchange_rates
\* returns the rates of the body whenever the endpoint answers 200.
C20_SessionOpenedOnFirstUse ==
    LET requests == {"get_exchange_rates", "convert_currency",
                     "get_travel_advisory"}
        body == args.response.body
    IN /\ (fn \in requests /\ args.self.session = None) => client.session # None
       /\ (/\ fn = "sync_get_exchange_rates"
           /\ args.response.kind = "response"
           /\ args.response.status = 200
           /\ body # None
           /\ "rates" \in DOMAIN body[1]) =>
                /\ out.raised = "none"
                /\ out.value = Some(body[1].rates)


\* C30: while an `async with` block on a client is active the client's
\* session is open: leaving one block never closes the session another,
\* still active block is using, and create_session never replaces a session
\* that is already open.
C30_SessionOpenWhileScoped ==
    /\ (fn = "__aexit__" /\ scopes > 0) =>
        /\ client.session # None
        /\ sessions[client.session[1]] = "open"
    /\ (fn \in {"create_session", "__aenter__"} /\ args.self.session # None) =>
        client.session = args.self.session


(***************************************************************************)
(* Properties of the window                                                *)
(***************************************************************************)
\* C21: the Add-trip handler calls add_trip only when the name is not
\* blank, the date range (both dates typed) and the budget (typed) are
\* valid and the dates parse; when one of these fails, the trips stored,
\* the list loaded, the selection and the pickers stay as they were
C21_AddTripOnlyWhenValid ==
    handler.name = "_add_trip" =>
        LET form == handler.input
            name_blank == strip(form.name) = <<>>
            range_invalid ==
                /\ form.start_date.fields # <<>>
                /\ form.end_date.fields # <<>>
                /\ ~validate_date_range(form.start_date.fields,
                                        form.end_date.fields, date_today)[1]
            budget_invalid ==
                form.budget # <<>> /\ ~validate_currency_amount(form.budget)[1]
            date_unparsable ==
                \/ /\ form.start_date.fields # <<>>
                   /\ date_fromisoformat(form.start_date).raised # "none"
                \/ /\ form.end_date.fields # <<>>
                   /\ date_fromisoformat(form.end_date).raised # "none"
            failed == name_blank \/ range_invalid \/ budget_invalid
                        \/ date_unparsable
        IN /\ handler.calls # <<>> => ~failed
           /\ failed =>
                /\ handler.calls = <<>>
                /\ db.trips = started.db.trips
                /\ current_trips = started.window.current_trips
                /\ current_trip = started.window.current_trip
                /\ trips_tree = started.window.trips_tree
                /\ trip_combobox = started.window.trip_combobox
                /\ analytics_trip_combobox = started.window.analytics_trip_combobox
                /\ export_trip_combobox = started.window.export_trip_combobox

\* Add pressed with a start date that passes validate_date_range and
\* that fromisoformat refuses, while a trip is selected
C21_Witness ==
    /\ handler.name = "_add_trip"
    /\ ~handler.input.start_date.padded
    /\ validate_date_range(handler.input.start_date.fields,
                           handler.input.end_date.fields, date_today)[1]
    /\ current_trip # None
    /\ trips_tree # None
    /\ handler.dialog = "error"


\* C22: the Update-trip handler calls update_trip only when the
\* validations of Add pass: the name is not blank, the date range (both
\* dates typed) is valid and the budget (typed) is valid
C22_UpdateTripOnlyWhenValid ==
    (handler.name = "_update_trip" /\ handler.calls # <<>>) =>
        LET form == handler.input
        IN /\ strip(form.name) # <<>>
           /\ (form.start_date.fields # <<>> /\ form.end_date.fields # <<>>) =>
                validate_date_range(form.start_date.fields,
                                    form.end_date.fields, date_today)[1]
           /\ form.budget # <<>> => validate_currency_amount(form.budget)[1]

\* C23: an Update that ends without persisting (a validation or a parse
\* failed, or update_trip returned false) leaves every field of the
\* selected trip and of the loaded list as it was
C23_NoPartialMutationOnFailedUpdate ==
    (handler.name = "_update_trip" /\ handler.dialog # "info") =>
        /\ db = started.db
        /\ current_trip = started.window.current_trip
        /\ current_trips = started.window.current_trips


\* C24: in every reachable state of the window the picker of the Expenses
\* tab offers concrete trips only: "all trips" is neither one of its
\* options nor its selected value
C24_ExpensesPickerOffersTripsOnly ==
    /\ \A i \in 1..Len(trip_combobox.values) :
           trip_combobox.values[i] # all_trips_option
    /\ trip_combobox.text # all_trips_option

\* C25: after the start and any sequence of handlers, the trip entries
\* offered by the pickers of the Expenses, Analytics and Export tabs are
\* the same, and are the entries of the trips in storage in the order
\* of get_all_trips
C25_PickersOfferStoredTrips ==
    LET stored == get_all_trips(db)
        expected == [i \in 1..Len(stored) |-> trip_entry(stored[i])]
        offered(combobox) ==
            SelectSeq(combobox.values, LAMBDA v : v # all_trips_option)
    IN /\ offered(trip_combobox) = expected
       /\ offered(analytics_trip_combobox) = expected
       /\ offered(export_trip_combobox) = expected

\* an Update has renamed one of two stored trips and the pickers offer
\* other entries than before it
C25_Witness ==
    /\ handler.name = "_update_trip"
    /\ handler.dialog = "info"
    /\ Cardinality(db.trips) = 2
    /\ export_trip_combobox.values # started.window.export_trip_combobox.values
    /\ Len(export_trip_combobox.values) = 3


\* C26: a refresh of the analytics closes the figures made before it
\* ahead of making its own, so the figures open after it are those it
\* made, and at most 4 figures are open after any sequence of refreshes
C26_AtMostFourFiguresOpen ==
    /\ figures <= 4
    /\ (handler.name = "_update_analytics" /\ handler.dialog # "warning") =>
        figures = update_analytics_pressed(
                      started.db, [started.window EXCEPT !.figures = 0]
                  ).window.figures

\* a refresh that made four figures while the four of the refresh before
\* it were open
C26_Witness ==
    /\ handler.name = "_update_analytics"
    /\ started.window.figures = 4
    /\ figures = 4


\* C27: an Update of a trip never changes the actual_spent stored: each
\* trip row has after the handler the actual_spent it had just before it
C27_UpdateKeepsActualSpent ==
    handler.name = "_update_trip" =>
        \A t \in db.trips : \A t0 \in started.db.trips :
            t.id = t0.id => t.actual_spent = t0.actual_spent


\* C28: the Add-expense handler stores an expense only for the trip
\* chosen in the picker of the Expenses tab: with the picker empty or on
\* "all trips" no expense row is inserted and no trip row changes, and
\* every expense stored has an amount above zero and the trip id the
\* picker showed
C28_ExpenseOnlyForChosenTrip ==
    /\ \A e \in db.expenses : e.amount > 0
    /\ handler.name = "_add_expense" =>
        LET selected == started.window.trip_combobox.text
        IN /\ selected \in {<<>>, all_trips_option} =>
                /\ db.expenses = started.db.expenses
                /\ db.trips = started.db.trips
           /\ \A e \in db.expenses \ started.db.expenses :
                /\ has_colon(selected)
                /\ int(split_colon_first(selected)).value = Some(e.trip_id)

\* Add expense pressed with a valid amount while trips exist and the
\* picker is on "all trips"
C28_Witness ==
    /\ handler.name = "_add_expense"
    /\ started.window.trip_combobox.text = all_trips_option
    /\ validate_currency_amount(handler.input.amount)[1]
    /\ db.trips # {}
    /\ db.expenses # {}
    /\ handler.dialog = "error"

====
